---- MODULE Spec2Model ----
(***************************************************************************)
(* Trigger engine of the VideoPad grid: one grid slot (GridCell component, *)
(* current revision, src/components/GridCell.tsx lines 226-421) together   *)
(* with the App handlers that change what the component sees              *)
(* (src/App.tsx).  The browser is modelled as an event loop: every action  *)
(* is one task (an event handler, a timer callback, a promise              *)
(* continuation) that runs to its next await.                              *)
(*                                                                         *)
(* Units: video positions and trim times are integer ticks; volumes are    *)
(* the stored numbers; gains and the video element's native volume are in  *)
(* tenths (10 = gain 1.0), so that volume / 10 is exact.                   *)
(***************************************************************************)
EXTENDS Integers, Sequences, FiniteSets, TLC

\* ---------------------------------------------------------------- bounds
MaxTriggers == 2      \* pointer-downs that pass the guards
MaxMounts == 1        \* teardowns of the grid (project imports)
MediaDur == 2         \* real length of a clip's media, in ticks
MaxCommits == 1       \* captures committed to the slot
MaxCells == 2         \* slots of the grid in the persistence model
MaxUrls == 4          \* object URLs created in one run
MaxPending == 2       \* store requests issued and not yet completed
MaxSamples == 3       \* length of a decoded channel
MaxBuilds == 2        \* constructions of the audio context the model follows
MaxFailures == 1      \* store requests that reject in one run

\* ------------------------------------------------------ program constants
CONFIRM_S == 3             \* seconds the clear-all confirmation stays armed
DEFAULT_VOLUME == 5
FALLBACK_DURATION == 999   \* getVideoDuration when the metadata is unreadable
threshold == 8             \* findBeatOnset, in hundredths of full scale
BACKOFF_MS == 30           \* findBeatOnset steps back 0.03 s from the onset

TrigIds == 1..MaxTriggers
Insts == 0..MaxMounts
StartTimes == 0..(MediaDur - 1)
EndTimes == {MediaDur}         \* the measured length of the media
Volumes == {5, 12}             \* stored volumes (12: a direct store write)
SliderVolumes == {0}           \* low end of the range input
Events == {[target |-> t, pointerType |-> p, button |-> b] :
             t \in {"cell", "control"}, p \in {"mouse", "touch"}, b \in {0, 2}}

Max(a, b) == IF a >= b THEN a ELSE b
Min(a, b) == IF a <= b THEN a ELSE b

\* ------------------------------------------------------------- data model
EmptyCell ==
  [isEmpty |-> TRUE, hasBuffer |-> FALSE, startTime |-> 0, endTime |-> 0,
   volume |-> DEFAULT_VOLUME, allowOverlap |-> FALSE]

\* the cells loadData can build from stored records
LoadedCells ==
  {EmptyCell} \cup
  {[isEmpty |-> FALSE, hasBuffer |-> b, startTime |-> s, endTime |-> e,
    volume |-> v, allowOverlap |-> o] :
     b \in BOOLEAN, s \in StartTimes, e \in EndTimes, v \in Volumes, o \in BOOLEAN}

NoVideo ==
  [present |-> FALSE, paused |-> TRUE, muted |-> TRUE,
   volume |-> 10, pos |-> 0, played |-> FALSE, ended |-> FALSE]

\* a freshly mounted <video muted preload="auto">; its media is a local
\* blob, taken as loaded (readyState HAVE_ENOUGH_DATA) when a trigger comes
NewVideo == [NoVideo EXCEPT !.present = TRUE]

VideoFor(c) == IF c.isEmpty THEN NoVideo ELSE NewVideo

NoHandler == [pc |-> "none", cell |-> EmptyCell, susp |-> FALSE, inst |-> 0]
NoSource == [status |-> "none", gain |-> 0, inst |-> 0]
EndedSource == [status |-> "done", gain |-> 0, inst |-> 0]

VARIABLES
  cell,           \* the PadCell the App passes to the component
  isDeleteMode,   \* App state
  showRecorder,   \* App state, passed as isSuspended
  activeCellId,   \* "none" | "me" | "other": slot the recorder records for
  mounted,        \* the GridCell component exists (cells is not [])
  epoch,          \* which component instance is mounted
  ctx,            \* shared AudioContext: "suspended" | "resuming" | "running"
  resumeQ,        \* handlers awaiting ctx.resume(), in call order
  playQ,          \* handlers whose play() promise is about to be resolved
  handlers,       \* in-flight handlePointerDown calls and what they captured
  nextTrig,       \* next handler id
  isPlaying,      \* component state
  playTimerRef,   \* per instance: timer handle or 0
  timers,         \* pending window timers
  activeSources,  \* union of the instances' activeSources sets
  src,            \* AudioBufferSourceNodes
  video,          \* the <video> element of the mounted component
  uncaught,       \* a rejection has left handlePointerDown uncaught
  commits,        \* captures committed so far
  cells,          \* App state: the grid, <<>> while it is being replaced
  activeUrls,     \* activeUrlsRef: cell id -> tracked object URL (0: none)
  urls,           \* the createObjectURL / revokeObjectURL calls made, in order
  db,             \* the clips store: cell id -> record
  dbQ,            \* db calls that were made and have not completed
  rec,            \* the recorder and the capture being committed
  load,           \* the loadData call in progress
  audio,          \* services/audio: audioCtx, masterCompressor, masterGain
  ret,            \* the last call of the audio service and its outcome
  notice,         \* what the user was told and what went unhandled
  reload,         \* a loadData call started while another is in progress
  importRun,      \* the importProject call in progress and how the last ended
  archive,        \* the project file exportProject made last
  clearing        \* clear-all: isConfirmingClear, its timeouts, the clear running

vars == <<cell, isDeleteMode, showRecorder, activeCellId, mounted, epoch, ctx,
          resumeQ, playQ, handlers, nextTrig, isPlaying, playTimerRef, timers,
          activeSources, src, video, uncaught, commits,
          cells, activeUrls, urls, db, dbQ, rec, load,
          audio, ret, notice, reload, importRun, archive,
          clearing>>

appVars == <<cell, isDeleteMode, showRecorder, activeCellId, mounted, epoch,
             commits>>
storeVars == <<cells, activeUrls, urls, db, dbQ, rec, load>>
audioVars == <<audio, ret>>
editVars == <<notice>>
sessionVars == <<reload>>
projectVars == <<importRun, archive>>
confirmVars == <<clearing>>
engineVars == <<ctx, resumeQ, playQ, handlers, nextTrig, isPlaying, playTimerRef,
                timers, activeSources, src, video, uncaught>>
\* what the actions of the pad leave alone, and those of the grid and store
offPadVars == <<storeVars, audioVars, editVars, sessionVars, confirmVars, projectVars>>
offStoreVars == <<appVars, engineVars, audioVars, editVars, sessionVars, confirmVars,
                  projectVars>>
offEditVars == <<appVars, engineVars, audioVars, sessionVars, projectVars,
                 confirmVars>>

\* ------------------------------------------- data of the grid and store
CellIds == 1..MaxCells
Durations == 1..MediaDur       \* real length of a recorded blob

\* a record of the "clips" object store; duration and decodable are the
\* properties of its blob
NoRecord ==
  [present |-> FALSE, duration |-> 0, decodable |-> FALSE, startTime |-> 0,
   endTime |-> 0, volume |-> DEFAULT_VOLUME, allowOverlap |-> FALSE]

\* records left by earlier sessions, or carried by a project file (their
\* overlap switch was turned on, so that a reset to the default shows)
StoredClips ==
  {[present |-> TRUE, duration |-> MediaDur, decodable |-> TRUE,
    startTime |-> st, endTime |-> MediaDur, volume |-> DEFAULT_VOLUME,
    allowOverlap |-> TRUE] : st \in StartTimes}

\* a PadCell of the grid; videoUrl 0 is null, duration is the length of
\* the media behind videoUrl
EmptyPad(id) ==
  [id |-> id, isEmpty |-> TRUE, videoUrl |-> 0, audioBuffer |-> FALSE,
   duration |-> 0, startTime |-> 0, endTime |-> 0,
   volume |-> DEFAULT_VOLUME, allowOverlap |-> FALSE]

NoCapture ==
  [pc |-> "idle", id |-> 0, duration |-> 0, decodable |-> FALSE,
   startTime |-> 0, endTime |-> 0, url |-> 0,
   volume |-> DEFAULT_VOLUME, allowOverlap |-> FALSE]

NoLoad ==
  [pc |-> "idle", snap |-> [id \in CellIds |-> NoRecord], next |-> 0,
   out |-> [id \in CellIds |-> EmptyPad(id)], isInitial |-> FALSE]

EngineInit ==
  /\ cell \in LoadedCells
  /\ isDeleteMode = FALSE
  /\ showRecorder = FALSE
  /\ activeCellId = "none"
  /\ mounted = TRUE
  /\ epoch = 0
  /\ ctx = "suspended"
  /\ resumeQ = <<>>
  /\ playQ = <<>>
  /\ handlers = [k \in TrigIds |-> NoHandler]
  /\ nextTrig = 1
  /\ isPlaying = FALSE
  /\ playTimerRef = [i \in Insts |-> 0]
  /\ timers = {}
  /\ activeSources = {}
  /\ src = [k \in TrigIds |-> NoSource]
  /\ video = VideoFor(cell)
  /\ uncaught = FALSE
  /\ commits = 0

\* the App before its first loadData, with an empty store
StoreIdle ==
  /\ cells = <<>>
  /\ activeUrls = [id \in CellIds |-> 0]
  /\ urls = <<>>
  /\ db = [id \in CellIds |-> NoRecord]
  /\ dbQ = <<>>
  /\ rec = NoCapture
  /\ load = NoLoad

\* the module services/audio as loaded: nothing constructed, nothing called
NoAudio == [audioCtx |-> 0, masterCompressor |-> 0, masterGain |-> 0, built |-> 0]

NoBlob == [size |-> 0, valid |-> FALSE, sampleRate |-> 1, rawData |-> <<>>]

NoCall == [fn |-> "none", blob |-> NoBlob, raised |-> FALSE, value |-> 0]

AudioIdle ==
  /\ audio = NoAudio
  /\ ret = NoCall

\* no edit of a pad in progress, nothing reported
NoNotice == [failed |-> 0, alerts |-> 0, unhandled |-> 0]

EditIdle ==
  /\ notice = NoNotice

\* a number JSON cannot write, the null it writes in its place, and a key
\* that is not there
Infinity == 1000
Null == -2
Undefined == -1

\* a file of the archive: none under that name
NoAsset == [present |-> FALSE, duration |-> 0, decodable |-> FALSE]

\* no project file
NoFile ==
  [zip |-> FALSE, manifest |-> "none", hasClips |-> FALSE, clips |-> <<>>,
   assets |-> [id \in CellIds |-> NoAsset]]

NoImport ==
  [pc |-> "idle", file |-> NoFile, todo |-> {}, next |-> 0, outcome |-> "none",
   before |-> [id \in CellIds |-> NoRecord]]

NoArchive == [made |-> FALSE, file |-> NoFile, from |-> [id \in CellIds |-> NoRecord]]

\* clear-all not armed: no timeout pending, clearTimerRef null, the last
\* arming press long ago, no clear running
NoClearing ==
  [isConfirmingClear |-> FALSE, timers |-> {}, clearTimerRef |-> -1,
   sinceArm |-> CONFIRM_S + 1, inProgress |-> FALSE]

\* no second loadData in progress, no project imported or exported, clear-all
\* not armed
SessionIdle ==
  /\ reload = NoLoad
  /\ importRun = NoImport
  /\ archive = NoArchive
  /\ clearing = NoClearing

Init == EngineInit /\ StoreIdle /\ AudioIdle /\ EditIdle /\ SessionIdle

\* ----------------------------------------------------------------- helpers
\* the component instance i is the mounted one
Alive(i) == mounted /\ i = epoch

\* videoRef.current of instance i is an element
VideoRef(i) == Alive(i) /\ video.present

\* activeSources.current of instance i
InstSources(i) == {s \in activeSources : src[s].inst = i}

Sounding == {s \in TrigIds : src[s].status = "playing"}

\* a node that no longer sounds and whose onended has not run yet
FinishedSource(n) == [n EXCEPT !.status = "finished", !.gain = 0]

\* source.stop() on every node of S; stopping a finished node changes nothing
StopSources(S) ==
  [s \in TrigIds |->
     IF s \in S /\ src[s].status = "playing"
     THEN FinishedSource(src[s])
     ELSE src[s]]

Pause(v) == [v EXCEPT !.paused = TRUE]

\* continuations of a resolved ctx.resume() run before any other task
Quiescent == ~(ctx = "running" /\ resumeQ # <<>>)

\* ------------------------------------------------------ handlePointerDown
\* the guards without the suspension check
PassesGuardsNoSuspend(e) ==
  /\ e.target # "control"
  /\ ~(cell.isEmpty \/ isDeleteMode)
  /\ ~(e.pointerType = "mouse" /\ e.button # 0)

\* the guards of handlePointerDown
PassesGuards(e) ==
  /\ e.target # "control"
  /\ ~(cell.isEmpty \/ isDeleteMode \/ showRecorder)
  /\ ~(e.pointerType = "mouse" /\ e.button # 0)

\* gain of a triggered node, in tenths: Math.max(0, cell.volume / 10)
GainOf(volume) == Max(0, volume)

\* an overlap policy that never stops a node
ToStopNever(h) == {}

\* an overlap policy that stops the cell's nodes on every trigger
ToStopAlways(h) == InstSources(h.inst)

\* overlap policy: the nodes a trigger stops and de-registers
ToStop(h) == IF ~h.cell.allowOverlap THEN InstSources(h.inst) ELSE {}

\* video side of a trigger up to the call of play()
SeekMute(v, h) == [v EXCEPT !.muted = TRUE, !.pos = h.cell.startTime]

\* play(): an allowed call starts playback at once and the loaded element
\* takes the promise for resolution in a later task (a pause() in between
\* no longer rejects it); a refused call (gesture policy, decoder limit)
\* leaves the element as it was and rejects
PlayCall(v, allowed) ==
  IF allowed THEN [v EXCEPT !.paused = FALSE, !.played = TRUE] ELSE v

\* a handler at await play(): of what it captured, only stopVisuals (its
\* startTime) and the refs of its instance are used from here on
AwaitingPlay(h) ==
  [NoHandler EXCEPT !.pc = "play", !.inst = h.inst, !.cell.startTime = h.cell.startTime]

\* a trigger that starts its node first and applies the overlap policy last
AudioStartFirst(k, h) ==
  LET src0 == IF h.cell.hasBuffer
              THEN [src EXCEPT ![k] = [status |-> "playing",
                                       gain |-> GainOf(h.cell.volume),
                                       inst |-> h.inst]]
              ELSE src
      act0 == IF h.cell.hasBuffer THEN activeSources \cup {k} ELSE activeSources
      stop == IF ~h.cell.allowOverlap
              THEN {s \in act0 : src0[s].inst = h.inst}
              ELSE {}
  IN /\ src' = [s \in TrigIds |->
                  IF s \in stop /\ src0[s].status = "playing"
                  THEN FinishedSource(src0[s])
                  ELSE src0[s]]
     /\ activeSources' = act0 \ stop

\* audio side of a trigger: the overlap policy, then the new node, with no
\* await in between
AudioStart(k, h) ==
  LET stop == ToStop(h)
      src1 == StopSources(stop)
      act1 == activeSources \ stop
  IN /\ src' = IF h.cell.hasBuffer
               THEN [src1 EXCEPT ![k] = [status |-> "playing",
                                         gain |-> GainOf(h.cell.volume),
                                         inst |-> h.inst]]
               ELSE src1
     /\ activeSources' = IF h.cell.hasBuffer THEN act1 \cup {k} ELSE act1

\* a video side without the try/catch around play()
VideoStartNoCatch(k, h) ==
  IF VideoRef(h.inst) /\ ~h.susp
  THEN \E allowed \in BOOLEAN :
         /\ video' = PlayCall(SeekMute(video, h), allowed)
         /\ handlers' =
              [handlers EXCEPT ![k] =
                 IF allowed
                 THEN AwaitingPlay(h)
                 ELSE NoHandler]
         /\ playQ' = IF allowed THEN Append(playQ, k) ELSE playQ
         /\ uncaught' = (uncaught \/ ~allowed)
  ELSE /\ video' = video
       /\ handlers' = [handlers EXCEPT ![k] = NoHandler]
       /\ playQ' = playQ
       /\ uncaught' = uncaught

\* video side of a trigger up to the await of play(); a rejected play() is
\* caught and logged
VideoStart(k, h) ==
  IF VideoRef(h.inst) /\ ~h.susp
  THEN \E allowed \in BOOLEAN :
         /\ video' = PlayCall(SeekMute(video, h), allowed)
         /\ handlers' =
              [handlers EXCEPT ![k] =
                 IF allowed
                 THEN AwaitingPlay(h)
                 ELSE NoHandler]
         /\ playQ' = IF allowed THEN Append(playQ, k) ELSE playQ
         /\ uncaught' = uncaught
  ELSE /\ video' = video
       /\ handlers' = [handlers EXCEPT ![k] = NoHandler]
       /\ playQ' = playQ
       /\ uncaught' = uncaught

\* handlePointerDown from the overlap policy to the await of play()
TriggerRun(k, h) == AudioStart(k, h) /\ VideoStart(k, h)

PointerDown(e) ==
  /\ mounted
  /\ Quiescent
  /\ e.target = "control" => (isDeleteMode /\ ~cell.isEmpty)
  /\ IF ~PassesGuards(e)
     THEN UNCHANGED vars
     ELSE /\ nextTrig <= MaxTriggers
          /\ nextTrig' = nextTrig + 1
          /\ LET h == [pc |-> "resume", cell |-> cell, susp |-> showRecorder,
                       inst |-> epoch]
             IN IF ctx # "running"
                THEN /\ ctx' = "resuming"
                     /\ resumeQ' = Append(resumeQ, nextTrig)
                     /\ handlers' = [handlers EXCEPT ![nextTrig] = h]
                     /\ UNCHANGED <<playQ, src, activeSources, video, uncaught>>
                ELSE /\ TriggerRun(nextTrig, h)
                     /\ UNCHANGED <<ctx, resumeQ>>
          /\ UNCHANGED <<appVars, offPadVars, isPlaying, playTimerRef, timers>>

\* the first touch anywhere, or another pad's trigger, calls ctx.resume()
UnlockAudio ==
  /\ ctx = "suspended"
  /\ ctx' = "resuming"
  /\ UNCHANGED <<appVars, offPadVars, resumeQ, playQ, handlers, nextTrig, isPlaying,
                 playTimerRef, timers, activeSources, src, video, uncaught>>

ResumeResolve ==
  /\ ctx = "resuming"
  /\ ctx' = "running"
  /\ UNCHANGED <<appVars, offPadVars, resumeQ, playQ, handlers, nextTrig, isPlaying,
                 playTimerRef, timers, activeSources, src, video, uncaught>>

\* await ctx.resume() throws: the handlers end there, and nothing catches
\* the rejection of their promise
ResumeReject ==
  /\ ctx = "resuming"
  /\ ctx' = "suspended"
  /\ resumeQ' = <<>>
  /\ uncaught' = (uncaught \/ resumeQ # <<>>)
  /\ handlers' = [k \in TrigIds |->
                    IF handlers[k].pc = "resume" THEN NoHandler ELSE handlers[k]]
  /\ UNCHANGED <<appVars, offPadVars, playQ, nextTrig, isPlaying, playTimerRef, timers,
                 activeSources, src, video>>

AfterResume ==
  /\ ctx = "running"
  /\ resumeQ # <<>>
  /\ TriggerRun(Head(resumeQ), handlers[Head(resumeQ)])
  /\ resumeQ' = Tail(resumeQ)
  /\ UNCHANGED <<appVars, offPadVars, ctx, nextTrig, isPlaying, playTimerRef, timers>>

\* play() resolved: setIsPlaying(true), replace the auto-stop timer
PlayResolve ==
  /\ Quiescent
  /\ playQ # <<>>
  /\ LET k == Head(playQ)
         h == handlers[k]
     IN /\ isPlaying' = IF Alive(h.inst) THEN TRUE ELSE isPlaying
        /\ timers' = {t \in timers : t.id # playTimerRef[h.inst]}
                       \cup {[id |-> k, startTime |-> h.cell.startTime, inst |-> h.inst]}
        /\ playTimerRef' = [playTimerRef EXCEPT ![h.inst] = k]
        /\ handlers' = [handlers EXCEPT ![k] = NoHandler]
  /\ playQ' = Tail(playQ)
  /\ UNCHANGED <<appVars, offPadVars, ctx, resumeQ, nextTrig, activeSources, src, video, uncaught>>

\* a stopVisuals that pauses and seeks but leaves the playing flag up
StopVisualsKeepsFlag(t) ==
  /\ isPlaying' = isPlaying
  /\ IF VideoRef(t.inst)
     THEN video' = [Pause(video) EXCEPT !.pos = t.startTime]
     ELSE video' = video

\* the auto-stop timer t fires: stopVisuals as the scheduling render built it
StopVisuals(t) ==
  /\ isPlaying' = IF Alive(t.inst) THEN FALSE ELSE isPlaying
  /\ IF VideoRef(t.inst)
     THEN video' = [Pause(video) EXCEPT !.pos = t.startTime]
     ELSE video' = video

TimerFire(t) ==
  /\ Quiescent
  /\ t \in timers
  /\ timers' = timers \ {t}
  /\ StopVisuals(t)
  /\ UNCHANGED <<appVars, offPadVars, ctx, resumeQ, playQ, handlers, nextTrig, playTimerRef,
                 activeSources, src, uncaught>>

\* playback moves on; at the end of the media the element pauses itself
\* and queues its "ended" event
VideoAdvance ==
  /\ Quiescent
  /\ video.present /\ ~video.paused /\ video.pos < MediaDur
  /\ video' = [video EXCEPT !.pos = video.pos + 1,
                            !.paused = (video.pos + 1 = MediaDur),
                            !.ended = (video.pos + 1 = MediaDur) \/ video.ended]
  /\ UNCHANGED <<appVars, offPadVars, ctx, resumeQ, playQ, handlers, nextTrig, isPlaying,
                 playTimerRef, timers, activeSources, src, uncaught>>

\* the "ended" event is dispatched: the <video> has no onEnded listener
VideoEnded ==
  /\ Quiescent
  /\ video.present /\ video.ended
  /\ video' = [video EXCEPT !.ended = FALSE]
  /\ UNCHANGED <<appVars, offPadVars, ctx, resumeQ, playQ, handlers, nextTrig, isPlaying,
                 playTimerRef, timers, activeSources, src, uncaught>>

\* a node plays to the end of its window
SourceEnds(s) ==
  /\ Quiescent
  /\ src[s].status = "playing"
  /\ src' = [src EXCEPT ![s] = FinishedSource(src[s])]
  /\ UNCHANGED <<appVars, offPadVars, ctx, resumeQ, playQ, handlers, nextTrig, isPlaying,
                 playTimerRef, timers, activeSources, video, uncaught>>

\* an onended that leaves the node registered
SourceOnEndedKeeps(s) ==
  /\ Quiescent
  /\ src[s].status = "finished"
  /\ src' = [src EXCEPT ![s] = EndedSource]
  /\ UNCHANGED <<appVars, offPadVars, ctx, resumeQ, playQ, handlers, nextTrig, isPlaying,
                 playTimerRef, timers, activeSources, video, uncaught>>

\* source.onended: activeSources.current.delete(source)
SourceOnEnded(s) ==
  /\ Quiescent
  /\ src[s].status = "finished"
  /\ src' = [src EXCEPT ![s] = EndedSource]
  /\ activeSources' = activeSources \ {s}
  /\ UNCHANGED <<appVars, offPadVars, ctx, resumeQ, playQ, handlers, nextTrig, isPlaying,
                 playTimerRef, timers, video, uncaught>>

\* -------------------------------------------------------------- App.tsx
\* the settings button of the header
ToggleDeleteMode ==
  /\ Quiescent
  /\ ~showRecorder
  /\ isDeleteMode' = ~isDeleteMode
  /\ UNCHANGED <<cell, showRecorder, activeCellId, mounted, epoch, commits,
                 engineVars, offPadVars>>

\* the suspend effect of the component: it only pauses the element
SuspendEffect(suspended) ==
  IF suspended /\ VideoRef(epoch)
  THEN video' = Pause(video)
  ELSE video' = video

\* onRecord of an empty slot: this one, or another slot of the grid
OpenRecorder(target) ==
  /\ Quiescent
  /\ mounted /\ ~showRecorder
  /\ target = "me" => cell.isEmpty
  /\ showRecorder' = TRUE
  /\ activeCellId' = target
  /\ SuspendEffect(TRUE)
  /\ UNCHANGED <<cell, isDeleteMode, mounted, epoch, commits, ctx, resumeQ,
                 playQ, handlers, nextTrig, isPlaying, playTimerRef, timers,
                 activeSources, src, uncaught, offPadVars>>

\* onCancel of the recorder
CancelRecorder ==
  /\ Quiescent
  /\ showRecorder
  /\ showRecorder' = FALSE
  /\ activeCellId' = "none"
  /\ UNCHANGED <<cell, isDeleteMode, mounted, epoch, commits, engineVars, offPadVars>>

\* the cell performSave writes for a capture with onset s, measured length e
\* and decode result b
SavedCell(c, s, e, b) ==
  [isEmpty |-> FALSE, hasBuffer |-> b, startTime |-> s, endTime |-> e,
   volume |-> IF c.isEmpty THEN DEFAULT_VOLUME ELSE c.volume,
   allowOverlap |-> c.allowOverlap]

\* handleCaptureComplete: commit the capture to the slot, close the recorder
CaptureComplete ==
  /\ Quiescent
  /\ showRecorder /\ activeCellId # "none"
  /\ IF activeCellId = "me"
     THEN /\ commits < MaxCommits
          /\ commits' = commits + 1
          /\ \E s \in StartTimes, e \in EndTimes, b \in BOOLEAN :
               /\ cell' = SavedCell(cell, s, e, b)
               /\ video' = IF video.present THEN video ELSE NewVideo
     ELSE UNCHANGED <<cell, video, commits>>
  /\ showRecorder' = FALSE
  /\ activeCellId' = "none"
  /\ UNCHANGED <<isDeleteMode, mounted, epoch, ctx, resumeQ, playQ, handlers,
                 nextTrig, isPlaying, playTimerRef, timers, activeSources, src,
                 uncaught, offPadVars>>

\* the controls of the settings overlay are there for an occupied slot
OverlayShown == mounted /\ isDeleteMode /\ ~cell.isEmpty /\ ~showRecorder

\* handleDelete: the slot becomes empty, its <video> leaves the document
HandleDelete ==
  /\ Quiescent
  /\ OverlayShown
  /\ cell' = EmptyCell
  /\ video' = NoVideo
  /\ UNCHANGED <<isDeleteMode, showRecorder, activeCellId, mounted, epoch,
                 commits, ctx, resumeQ, playQ, handlers, nextTrig, isPlaying,
                 playTimerRef, timers, activeSources, src, uncaught, offPadVars>>

HandleToggleOverlap ==
  /\ Quiescent
  /\ OverlayShown
  /\ cell' = [cell EXCEPT !.allowOverlap = ~cell.allowOverlap]
  /\ UNCHANGED <<isDeleteMode, showRecorder, activeCellId, mounted, epoch,
                 commits, engineVars, offPadVars>>

HandleVolumeChange(v) ==
  /\ Quiescent
  /\ OverlayShown
  /\ cell' = [cell EXCEPT !.volume = v]
  /\ UNCHANGED <<isDeleteMode, showRecorder, activeCellId, mounted, epoch,
                 commits, engineVars, offPadVars>>

\* cleanup of the component's unmount effect: the nodes it stops
UnmountStops(i) == InstSources(i)

\* cleanup of the component's unmount effect: the timers it leaves pending
UnmountTimers(i) == {t \in timers : t.id # playTimerRef[i]}

\* handleImport up to setCells([]): every GridCell is unmounted
HandleImportReset ==
  /\ Quiescent
  /\ mounted /\ ~showRecorder
  /\ epoch < MaxMounts
  /\ mounted' = FALSE
  /\ cell' = EmptyCell
  /\ isPlaying' = FALSE
  /\ timers' = UnmountTimers(epoch)
  /\ src' = StopSources(UnmountStops(epoch))
  /\ video' = NoVideo
  /\ UNCHANGED <<isDeleteMode, showRecorder, activeCellId, epoch, commits, ctx,
                 resumeQ, playQ, handlers, nextTrig, playTimerRef, activeSources,
                 uncaught, offPadVars>>

\* the loadData of handleImport completes: setCells(loadedCells) mounts a
\* new component for the slot
LoadData ==
  /\ Quiescent
  /\ ~mounted
  /\ mounted' = TRUE
  /\ epoch' = epoch + 1
  /\ \E c \in LoadedCells :
       /\ cell' = c
       /\ video' = VideoFor(c)
  /\ isPlaying' = FALSE
  /\ UNCHANGED <<isDeleteMode, showRecorder, activeCellId, commits, ctx, resumeQ,
                 playQ, handlers, nextTrig, playTimerRef, timers, activeSources,
                 src, uncaught, offPadVars>>

Next ==
  \/ \E e \in Events : PointerDown(e)
  \/ UnlockAudio
  \/ ResumeResolve
  \/ ResumeReject
  \/ AfterResume
  \/ PlayResolve
  \/ \E t \in timers : TimerFire(t)
  \/ VideoAdvance
  \/ VideoEnded
  \/ \E s \in TrigIds : SourceEnds(s)
  \/ \E s \in TrigIds : SourceOnEnded(s)
  \/ ToggleDeleteMode
  \/ \E target \in {"me", "other"} : OpenRecorder(target)
  \/ CancelRecorder
  \/ CaptureComplete
  \/ HandleDelete
  \/ HandleToggleOverlap
  \/ \E v \in SliderVolumes : HandleVolumeChange(v)
  \/ HandleImportReset
  \/ LoadData

Spec == Init /\ [][Next]_vars

\* the event loop runs the continuations of settled promises and fires the
\* timers that are due
\* a fresh installation: nothing stored, the slot is empty
FairInit == Init /\ cell.isEmpty

FairSpec ==
  /\ FairInit /\ [][Next]_vars
  /\ WF_vars(AfterResume)
  /\ WF_vars(PlayResolve)
  /\ WF_vars(\E t \in timers : TimerFire(t))

\* ------------------------------------------------ App.tsx: grid and store
\* Object URLs are named by the position of their createObjectURL call in
\* the log of URL calls.
UrlCall(ev, url, id, kind, existing) ==
  [ev |-> ev, url |-> url, id |-> id, kind |-> kind, existing |-> existing]

Created == {i \in DOMAIN urls : urls[i].ev = "create"}

\* room for one more createObjectURL within the bound
CanCreate == Cardinality(Created) < MaxUrls

\* getTrackedUrl(id, blob): the URL calls it makes, in order
getTrackedUrl(log, tracked, id) ==
  LET existing == tracked[id]
      revoked == IF existing # 0
                   THEN Append(log, UrlCall("revoke", existing, id, "cell", 0))
                   ELSE log
  IN Append(revoked, UrlCall("create", Len(revoked) + 1, id, "cell", existing))

RECURSIVE revokeAll(_, _, _)
revokeAll(log, tracked, id) ==
  IF id > MaxCells THEN log
  ELSE revokeAll(IF tracked[id] # 0
                   THEN Append(log, UrlCall("revoke", tracked[id], id, "cell", 0))
                   ELSE log,
                 tracked, id + 1)

\* cleanupAllUrls: revoke every tracked URL, clear the map
cleanupAllUrls == revokeAll(urls, activeUrls, 1)

\* the first stored clip at or after id in a snapshot of the store
RECURSIVE nextFound(_, _)
nextFound(snap, id) ==
  IF id > MaxCells THEN MaxCells + 1
  ELSE IF snap[id].present THEN id ELSE nextFound(snap, id + 1)

\* loadData up to its next await: the decode of the next stored clip, or,
\* past the last one, setCells(loadedCells)
loadAdvance(snap, out, from) ==
  IF nextFound(snap, from) > MaxCells
    THEN /\ cells' = [id \in CellIds |-> out[id]]
         /\ load' = NoLoad
    ELSE /\ cells' = cells
         /\ load' = [pc |-> "building", snap |-> snap,
                     next |-> nextFound(snap, from), out |-> out,
                     isInitial |-> load.isInitial]

\* getAllClips() resolves
loadRead ==
  /\ load.pc = "reading"
  /\ loadAdvance(db, [id \in CellIds |-> EmptyPad(id)], 1)
  /\ UNCHANGED <<offStoreVars, activeUrls, urls, db, dbQ, rec>>

\* getAllClips() rejects: the catch of loadData logs, setCells is not reached
loadFail ==
  /\ load.pc = "reading"
  /\ load' = NoLoad
  /\ UNCHANGED <<offStoreVars, cells, activeUrls, urls, db, dbQ, rec>>

\* a loadData without the try/catch around decodeAudio: a failed decode
\* ends the load in the outer catch
loadStepNoCatch ==
  /\ load.pc = "building"
  /\ LET id == load.next
         found == load.snap[id]
         reuse == activeUrls[id] # 0
         log == IF reuse THEN urls ELSE getTrackedUrl(urls, activeUrls, id)
         videoUrl == IF reuse THEN activeUrls[id] ELSE Len(log)
         pad == [id |-> id, isEmpty |-> FALSE, videoUrl |-> videoUrl,
                 audioBuffer |-> found.decodable, duration |-> found.duration,
                 startTime |-> found.startTime, endTime |-> found.endTime,
                 volume |-> found.volume, allowOverlap |-> found.allowOverlap]
     IN IF found.decodable
        THEN /\ reuse \/ CanCreate
             /\ urls' = log
             /\ activeUrls' = [activeUrls EXCEPT ![id] = videoUrl]
             /\ loadAdvance(load.snap, [load.out EXCEPT ![id] = pad], id + 1)
        ELSE /\ load' = NoLoad
             /\ UNCHANGED <<cells, urls, activeUrls>>
  /\ UNCHANGED <<offStoreVars, db, dbQ, rec>>

\* decodeAudio(found.blob) settles for the clip load.next (a failure is
\* caught and leaves the buffer null): reuse or create its URL, push the
\* cell, go on
loadStep ==
  /\ load.pc = "building"
  /\ LET id == load.next
         found == load.snap[id]
         reuse == activeUrls[id] # 0
         log == IF reuse THEN urls ELSE getTrackedUrl(urls, activeUrls, id)
         videoUrl == IF reuse THEN activeUrls[id] ELSE Len(log)
         pad == [id |-> id, isEmpty |-> FALSE, videoUrl |-> videoUrl,
                 audioBuffer |-> found.decodable, duration |-> found.duration,
                 startTime |-> found.startTime, endTime |-> found.endTime,
                 volume |-> found.volume, allowOverlap |-> found.allowOverlap]
     IN /\ reuse \/ CanCreate
        /\ urls' = log
        /\ activeUrls' = [activeUrls EXCEPT ![id] = videoUrl]
        /\ loadAdvance(load.snap, [load.out EXCEPT ![id] = pad], id + 1)
  /\ UNCHANGED <<offStoreVars, db, dbQ, rec>>

\* the page becomes visible again: loadData(false)
visibilityChange ==
  /\ load.pc = "idle"
  /\ load' = [NoLoad EXCEPT !.pc = "reading"]
  /\ UNCHANGED <<offStoreVars, cells, activeUrls, urls, db, dbQ, rec>>

\* the grid is rendered and no modal covers it
GridShown == Len(cells) = MaxCells /\ rec.pc = "idle"

\* the record button of an empty cell
onRecord(id) ==
  /\ GridShown
  /\ cells[id].isEmpty
  /\ rec' = [NoCapture EXCEPT !.pc = "open", !.id = id]
  /\ UNCHANGED <<offStoreVars, cells, activeUrls, urls, db, dbQ, load>>

onCancel ==
  /\ rec.pc = "open"
  /\ rec' = NoCapture
  /\ UNCHANGED <<offStoreVars, cells, activeUrls, urls, db, dbQ, load>>

\* the recorder hands over a blob of length d: the onset is searched, then
\* getVideoDuration opens the blob in a probe element
handleCaptureComplete(d, b, st) ==
  /\ rec.pc = "open"
  /\ CanCreate
  /\ b \/ st = 0
  /\ st < d
  /\ LET currentCell == IF Len(cells) = MaxCells THEN cells[rec.id]
                                                 ELSE EmptyPad(rec.id)
     IN rec' = [rec EXCEPT !.pc = "duration", !.duration = d, !.decodable = b,
                           !.startTime = st,
                           !.volume = IF currentCell.isEmpty THEN DEFAULT_VOLUME
                                                            ELSE currentCell.volume,
                           !.allowOverlap = currentCell.allowOverlap]
  /\ urls' = Append(urls, UrlCall("create", Len(urls) + 1, rec.id, "probe", 0))
  /\ UNCHANGED <<offStoreVars, cells, activeUrls, db, dbQ, load>>

\* getVideoDuration resolves, with the length of the blob or the fallback;
\* performSave runs to its await of decodeAudio
performSave(measured) ==
  /\ rec.pc = "duration"
  /\ CanCreate
  /\ LET log == getTrackedUrl(urls, activeUrls, rec.id)
     IN /\ urls' = log
        /\ activeUrls' = [activeUrls EXCEPT ![rec.id] = Len(log)]
        /\ rec' = [rec EXCEPT !.pc = "decode", !.url = Len(log),
                     !.endTime = IF measured THEN rec.duration
                                             ELSE FALLBACK_DURATION]
  /\ UNCHANGED <<offStoreVars, cells, db, dbQ, load>>

StoreOp(op, id, record, capture) ==
  [op |-> op, id |-> id, record |-> record, capture |-> capture]

\* decodeAudio settles: setCells(prev => prev.map(...)), then saveClip
performSaveDecoded ==
  /\ rec.pc = "decode"
  /\ Len(dbQ) < MaxPending
  /\ cells' = [i \in DOMAIN cells |->
                 IF cells[i].id = rec.id
                   THEN [cells[i] EXCEPT !.videoUrl = rec.url,
                           !.audioBuffer = rec.decodable,
                           !.duration = rec.duration,
                           !.startTime = rec.startTime,
                           !.endTime = rec.endTime,
                           !.isEmpty = FALSE,
                           !.volume = rec.volume,
                           !.allowOverlap = rec.allowOverlap]
                   ELSE cells[i]]
  /\ dbQ' = Append(dbQ, StoreOp("put", rec.id,
                     [present |-> TRUE, duration |-> rec.duration,
                      decodable |-> rec.decodable, startTime |-> rec.startTime,
                      endTime |-> rec.endTime, volume |-> rec.volume,
                      allowOverlap |-> rec.allowOverlap], TRUE))
  /\ rec' = [rec EXCEPT !.pc = "save"]
  /\ UNCHANGED <<offStoreVars, activeUrls, urls, db, load>>

\* the oldest request completes; after the put of a capture the finally
\* block of handleCaptureComplete closes the recorder
dbApply ==
  /\ dbQ # <<>>
  /\ Head(dbQ).op \in {"put", "delete"}
  /\ LET r == Head(dbQ)
     IN /\ db' = [db EXCEPT ![r.id] = IF r.op = "put" THEN r.record ELSE NoRecord]
        /\ rec' = IF r.capture THEN NoCapture ELSE rec
  /\ dbQ' = Tail(dbQ)
  /\ UNCHANGED <<offStoreVars, cells, activeUrls, urls, load>>

\* handleDelete written with a save of the emptied record
handleDeleteSavesEmpty(id) ==
  /\ GridShown
  /\ Len(dbQ) < MaxPending
  /\ cells' = [cells EXCEPT ![id] = EmptyPad(id)]
  /\ IF activeUrls[id] # 0
       THEN /\ urls' = Append(urls, UrlCall("revoke", activeUrls[id], id, "cell", 0))
            /\ activeUrls' = [activeUrls EXCEPT ![id] = 0]
       ELSE UNCHANGED <<urls, activeUrls>>
  /\ dbQ' = Append(Append(dbQ, StoreOp("delete", id, NoRecord, FALSE)),
                   StoreOp("put", id, [NoRecord EXCEPT !.present = TRUE], FALSE))
  /\ UNCHANGED <<offStoreVars, db, rec, load>>

handleDelete(id) ==
  /\ GridShown
  /\ Len(dbQ) < MaxPending
  /\ cells' = [cells EXCEPT ![id] = EmptyPad(id)]
  /\ IF activeUrls[id] # 0
       THEN /\ urls' = Append(urls, UrlCall("revoke", activeUrls[id], id, "cell", 0))
            /\ activeUrls' = [activeUrls EXCEPT ![id] = 0]
       ELSE UNCHANGED <<urls, activeUrls>>
  /\ dbQ' = Append(dbQ, StoreOp("delete", id, NoRecord, FALSE))
  /\ UNCHANGED <<offStoreVars, db, rec, load>>

\* the reset shared by handleImport and handleClearAll once the store is
\* rewritten: cleanupAllUrls(), setCells([]), loadData(false)
resetAndReload ==
  /\ urls' = cleanupAllUrls
  /\ activeUrls' = [id \in CellIds |-> 0]
  /\ cells' = <<>>
  /\ load' = [NoLoad EXCEPT !.pc = "reading"]

\* importProject replaces the store by the clips of the project file
handleImport(project) ==
  /\ GridShown
  /\ load.pc = "idle"
  /\ db' = project
  /\ resetAndReload
  /\ UNCHANGED <<offStoreVars, dbQ, rec>>

\* the confirmed second press of "clear all"
handleClearAll ==
  /\ GridShown
  /\ load.pc = "idle"
  /\ db' = [id \in CellIds |-> NoRecord]
  /\ resetAndReload
  /\ UNCHANGED <<offStoreVars, dbQ, rec>>

StoreNext ==
  \/ loadRead
  \/ loadFail
  \/ loadStep
  \/ visibilityChange
  \/ \E id \in CellIds : onRecord(id)
  \/ onCancel
  \/ \E d \in Durations, b \in BOOLEAN, st \in StartTimes :
       handleCaptureComplete(d, b, st)
  \/ \E measured \in BOOLEAN : performSave(measured)
  \/ performSaveDecoded
  \/ dbApply
  \/ \E id \in CellIds : handleDelete(id)
  \/ \E project \in [CellIds -> StoredClips \cup {NoRecord}] : handleImport(project)
  \/ handleClearAll

\* the App at mount: the store as earlier sessions left it, loadData(true)
\* in flight; the pad engine stays at rest
StoreInit ==
  /\ EngineInit
  /\ cell = EmptyCell
  /\ cells = <<>>
  /\ activeUrls = [id \in CellIds |-> 0]
  /\ urls = <<>>
  /\ db \in [CellIds -> StoredClips \cup {NoRecord}]
  /\ dbQ = <<>>
  /\ rec = NoCapture
  /\ load = [NoLoad EXCEPT !.pc = "reading", !.isInitial = TRUE]
  /\ AudioIdle
  /\ EditIdle
  /\ SessionIdle

StoreSpec == StoreInit /\ [][StoreNext]_vars

\* ------------------------------------------------------- services/audio
\* amplitudes of a sample, in hundredths of full scale: at, above and below
\* the threshold, of both signs
Amplitudes == {0 - (threshold + 1), 0 - threshold, 0, threshold, threshold + 1}

\* sample rates of a decoded buffer, scaled down with the length of the
\* channel so that an onset falls on either side of the 30 ms
SampleRates == {10, 50}

Channels ==
  UNION {[1..n -> Amplitudes] : n \in 0..MaxSamples}

\* a recorded blob: empty, rejected by the codec, or decodable to a channel
Blobs ==
  {NoBlob, [NoBlob EXCEPT !.size = 1]} \cup
  {[size |-> 1, valid |-> TRUE, sampleRate |-> r, rawData |-> c] :
     r \in SampleRates, c \in Channels}

Abs(x) == IF x < 0 THEN 0 - x ELSE x

\* a getAudioContext that builds a context and a chain on every call
getAudioContextRebuilds(a) ==
  [audioCtx |-> a.built + 1, masterCompressor |-> a.built + 1,
   masterGain |-> a.built + 1, built |-> a.built + 1]

\* getAudioContext(): the context and the master chain are built when
\* audioCtx is null
getAudioContext(a) ==
  IF a.audioCtx = 0
  THEN [audioCtx |-> a.built + 1, masterCompressor |-> a.built + 1,
        masterGain |-> a.built + 1, built |-> a.built + 1]
  ELSE a

\* decodeAudio throws on an empty blob, before it asks for the context,
\* and rethrows the rejection of decodeAudioData
decodeRaises(blob) == blob.size = 0 \/ ~blob.valid

decodeAudioCtx(a, blob) == IF blob.size = 0 THEN a ELSE getAudioContext(a)

\* the loop of findBeatOnset from index i (0-based) on: the index of the
\* first sample over the threshold, or -1
RECURSIVE firstOverInclusive(_, _)
firstOverInclusive(rawData, i) ==
  IF i >= Len(rawData) THEN 0 - 1
  ELSE IF Abs(rawData[i + 1]) >= threshold THEN i
  ELSE firstOverInclusive(rawData, i + 1)

RECURSIVE firstOver(_, _)
firstOver(rawData, i) ==
  IF i >= Len(rawData) THEN 0 - 1
  ELSE IF Abs(rawData[i + 1]) > threshold THEN i
  ELSE firstOver(rawData, i + 1)

\* Math.max(0, (i / sampleRate) - 0.03), in milliseconds times sampleRate
onsetOf(buffer) ==
  LET i == firstOver(buffer.rawData, 0)
  IN IF i < 0 THEN 0
     ELSE Max(0, 1000 * i - BACKOFF_MS * buffer.sampleRate)

\* findBeatOnset without its try/catch
findBeatOnsetNoCatch(blob) ==
  IF decodeRaises(blob)
  THEN [fn |-> "findBeatOnset", blob |-> blob, raised |-> TRUE, value |-> 0]
  ELSE [fn |-> "findBeatOnset", blob |-> blob, raised |-> FALSE,
        value |-> onsetOf(blob)]

\* findBeatOnset: what its caller gets
findBeatOnset(blob) ==
  IF decodeRaises(blob)
  THEN [fn |-> "findBeatOnset", blob |-> blob, raised |-> FALSE, value |-> 0]
  ELSE [fn |-> "findBeatOnset", blob |-> blob, raised |-> FALSE,
        value |-> onsetOf(blob)]

CallGetAudioContext ==
  /\ audio.built < MaxBuilds
  /\ audio' = getAudioContext(audio)
  /\ ret' = [NoCall EXCEPT !.fn = "getAudioContext", !.value = audio'.audioCtx]
  /\ UNCHANGED <<appVars, engineVars, storeVars, editVars, sessionVars, confirmVars,
                 projectVars>>

\* connectToMaster(node): the node goes to the limiter (or, without one, to
\* the destination); value is what it was connected to
CallConnectToMaster ==
  /\ audio.built < MaxBuilds
  /\ audio' = getAudioContext(audio)
  /\ ret' = [NoCall EXCEPT !.fn = "connectToMaster",
                           !.value = audio'.masterCompressor]
  /\ UNCHANGED <<appVars, engineVars, storeVars, editVars, sessionVars, confirmVars,
                 projectVars>>

CallDecodeAudio(blob) ==
  /\ audio.built < MaxBuilds
  /\ audio' = decodeAudioCtx(audio, blob)
  /\ ret' = [fn |-> "decodeAudio", blob |-> blob, raised |-> decodeRaises(blob),
             value |-> 0]
  /\ UNCHANGED <<appVars, engineVars, storeVars, editVars, sessionVars, confirmVars,
                 projectVars>>

CallFindBeatOnset(blob) ==
  /\ audio.built < MaxBuilds
  /\ audio' = decodeAudioCtx(audio, blob)
  /\ ret' = findBeatOnset(blob)
  /\ UNCHANGED <<appVars, engineVars, storeVars, editVars, sessionVars, confirmVars,
                 projectVars>>

AudioNext ==
  \/ CallGetAudioContext
  \/ CallConnectToMaster
  \/ \E blob \in Blobs : CallDecodeAudio(blob)
  \/ \E blob \in Blobs : CallFindBeatOnset(blob)

\* the audio module as loaded, the rest of the app at rest
AudioInit ==
  /\ EngineInit
  /\ cell = EmptyCell
  /\ StoreIdle
  /\ AudioIdle
  /\ EditIdle
  /\ SessionIdle

AudioSpec == AudioInit /\ [][AudioNext]_vars

\* ------------------------------------------------- App.tsx: pad settings
\* a position of the volume slider other than the default
EditVolumes == {0}

\* a request of updateClipVolume / updateClipOverlap in the store's queue:
\* its db.get, then its db.put of the record it read with the field set
UpdateOp(op, id, record, field, value) ==
  [op |-> op, id |-> id, record |-> record, capture |-> FALSE,
   field |-> field, value |-> value]

IsUpdateOp(r) == "field" \in DOMAIN r

\* the settings overlay of an occupied cell
SettingsShown(id) == GridShown /\ ~cells[id].isEmpty

\* clip.volume = volume / clip.allowOverlap = allowOverlap
Edited(record, field, value) ==
  IF field = "volume" THEN [record EXCEPT !.volume = value]
                      ELSE [record EXCEPT !.allowOverlap = value]

\* the slider of the overlay: setCells, then updateClipVolume, not awaited
handleVolumeChange(id, v) ==
  /\ SettingsShown(id)
  /\ Len(dbQ) < MaxPending
  /\ cells' = [cells EXCEPT ![id].volume = v]
  /\ dbQ' = Append(dbQ, UpdateOp("get", id, NoRecord, "volume", v))
  /\ UNCHANGED <<offEditVars, notice, activeUrls, urls, db, rec, load>>

\* the overlap switch of the overlay: setCells, then updateClipOverlap
handleToggleOverlap(id) ==
  /\ SettingsShown(id)
  /\ Len(dbQ) < MaxPending
  /\ cells' = [cells EXCEPT ![id].allowOverlap = ~cells[id].allowOverlap]
  /\ dbQ' = Append(dbQ, UpdateOp("get", id, NoRecord, "allowOverlap",
                                 ~cells[id].allowOverlap))
  /\ UNCHANGED <<offEditVars, notice, activeUrls, urls, db, rec, load>>

\* db.get of an update resolves: without a clip the call ends, with one it
\* sets its field on the record read and asks for the put, a transaction of
\* its own behind those already asked for
updateGet ==
  /\ dbQ # <<>>
  /\ Head(dbQ).op = "get"
  /\ LET r == Head(dbQ)
     IN dbQ' = IF db[r.id].present
               THEN Append(Tail(dbQ),
                           UpdateOp("put", r.id, Edited(db[r.id], r.field, r.value),
                                    r.field, r.value))
               ELSE Tail(dbQ)
  /\ UNCHANGED <<offEditVars, notice, cells, activeUrls, urls, db, rec, load>>

\* a request of an update rejects: the promise of updateClipVolume or
\* updateClipOverlap was not kept by the handler, nothing catches it
updateReject ==
  /\ dbQ # <<>>
  /\ IsUpdateOp(Head(dbQ))
  /\ notice.failed < MaxFailures
  /\ dbQ' = Tail(dbQ)
  /\ notice' = [notice EXCEPT !.failed = @ + 1, !.unhandled = @ + 1]
  /\ UNCHANGED <<offEditVars, cells, activeUrls, urls, db, rec, load>>

\* the oldest deleteClip rejects: handleDelete has emptied the cell already
\* and lets the rejection go to the click handler, which drops it
deleteReject ==
  /\ dbQ # <<>>
  /\ Head(dbQ).op = "delete"
  /\ notice.failed < MaxFailures
  /\ dbQ' = Tail(dbQ)
  /\ notice' = [notice EXCEPT !.failed = @ + 1, !.unhandled = @ + 1]
  /\ UNCHANGED <<offEditVars, cells, activeUrls, urls, db, rec, load>>

\* the delete button of the overlay of an occupied cell
onDelete(id) == SettingsShown(id) /\ handleDelete(id)

EditNext ==
  \/ loadRead
  \/ loadStep
  \/ \E id \in CellIds, v \in EditVolumes : handleVolumeChange(id, v)
  \/ \E id \in CellIds : handleToggleOverlap(id)
  \/ updateGet
  \/ updateReject
  \/ \E id \in CellIds : onDelete(id)
  \/ dbApply
  \/ deleteReject

\* the App at mount, as for StoreSpec; the page stays visible, no clip is
\* recorded and no project is imported
EditSpec == StoreInit /\ [][EditNext]_vars

\* ------------------------------- the App revision with the trimmer (db.ts)
\* the windows the trimmer can hand over
TrimEnds == 1..MediaDur

\* the blob of a stored clip as decodeAudio sees it
ClipBlob(decodable) == [NoBlob EXCEPT !.size = 1, !.valid = decodable]

\* the scissors of an occupied cell: getClip(id), then the trimmer opens on
\* the stored blob and window
handleTrimExisting(id) ==
  /\ SettingsShown(id)
  /\ db[id].present
  /\ rec' = [NoCapture EXCEPT !.pc = "trim", !.id = id,
                              !.duration = db[id].duration,
                              !.decodable = db[id].decodable,
                              !.startTime = db[id].startTime,
                              !.endTime = db[id].endTime,
                              !.allowOverlap = db[id].allowOverlap]
  /\ UNCHANGED <<offStoreVars, cells, activeUrls, urls, db, dbQ, load>>

\* onCancel of the trimmer
handleTrimCancel ==
  /\ rec.pc = "trim"
  /\ rec' = NoCapture
  /\ UNCHANGED <<offStoreVars, cells, activeUrls, urls, db, dbQ, load>>

\* onSave of the trimmer: performSave(activeCellId, pendingClip.blob, ...)
\* makes an object URL for the blob and runs to its await of decodeAudio
handleTrimSave(st, et) ==
  /\ rec.pc = "trim"
  /\ st < et
  /\ CanCreate
  /\ urls' = Append(urls, UrlCall("create", Len(urls) + 1, rec.id, "cell",
                                  cells[rec.id].videoUrl))
  /\ rec' = [rec EXCEPT !.pc = "trimDecode", !.url = Len(urls) + 1,
                        !.startTime = st, !.endTime = et]
  /\ audio' = decodeAudioCtx(audio, ClipBlob(rec.decodable))
  /\ ret' = [fn |-> "decodeAudio", blob |-> ClipBlob(rec.decodable),
             raised |-> decodeRaises(ClipBlob(rec.decodable)), value |-> 0]
  /\ UNCHANGED <<appVars, engineVars, editVars, sessionVars, confirmVars, projectVars, cells,
                 activeUrls, db,
               dbQ, load>>

\* decodeAudio settles in that performSave: the URL the cell had is revoked,
\* the cell gets the new URL and buffer, and saveClip writes the whole record
handleTrimSaveDecoded ==
  /\ rec.pc = "trimDecode"
  /\ Len(dbQ) < MaxPending
  /\ LET currentCell == cells[rec.id]
         updatedOverlap == currentCell.allowOverlap
         updatedVolume == IF currentCell.isEmpty THEN DEFAULT_VOLUME
                                                 ELSE currentCell.volume
     IN /\ urls' = IF currentCell.videoUrl # 0
                   THEN Append(urls, UrlCall("revoke", currentCell.videoUrl,
                                             rec.id, "cell", 0))
                   ELSE urls
        /\ activeUrls' = [activeUrls EXCEPT ![rec.id] = rec.url]
        /\ cells' = [cells EXCEPT ![rec.id] =
                       [currentCell EXCEPT !.videoUrl = rec.url,
                                           !.audioBuffer = ~ret.raised,
                                           !.startTime = rec.startTime,
                                           !.endTime = rec.endTime,
                                           !.isEmpty = FALSE,
                                           !.volume = updatedVolume,
                                           !.allowOverlap = updatedOverlap]]
        /\ dbQ' = Append(dbQ, StoreOp("put", rec.id,
                           [present |-> TRUE, duration |-> rec.duration,
                            decodable |-> rec.decodable,
                            startTime |-> rec.startTime, endTime |-> rec.endTime,
                            volume |-> updatedVolume,
                            allowOverlap |-> updatedOverlap], TRUE))
  /\ rec' = [rec EXCEPT !.pc = "save"]
  /\ UNCHANGED <<offStoreVars, db, load>>

TrimNext ==
  \/ loadRead
  \/ loadStep
  \/ \E id \in CellIds : handleTrimExisting(id)
  \/ handleTrimCancel
  \/ \E st \in StartTimes, et \in TrimEnds : handleTrimSave(st, et)
  \/ handleTrimSaveDecoded
  \/ \E id \in CellIds : onDelete(id)
  \/ dbApply

\* the App at mount; the grid is loaded, then clips are trimmed and deleted
TrimSpec == StoreInit /\ [][TrimNext]_vars

\* ------------------------------------------- App.tsx: overlapping loads
\* loadData has no guard against a run in progress: a second run, started
\* by the page becoming visible or by import / clear-all, goes on beside it.
\* The runs are told apart by their variable only; both are loadData.
reloadAdvance(snap, out, from) ==
  IF nextFound(snap, from) > MaxCells
    THEN /\ cells' = [id \in CellIds |-> out[id]]
         /\ reload' = NoLoad
    ELSE /\ cells' = cells
         /\ reload' = [pc |-> "building", snap |-> snap,
                       next |-> nextFound(snap, from), out |-> out,
                       isInitial |-> FALSE]

\* getAllClips() of the second run resolves
reloadRead ==
  /\ reload.pc = "reading"
  /\ reloadAdvance(db, [id \in CellIds |-> EmptyPad(id)], 1)
  /\ UNCHANGED <<appVars, engineVars, audioVars, editVars, projectVars,
                 confirmVars, activeUrls, urls, db,
                 dbQ, rec, load>>

\* decodeAudio of the second run settles for the clip reload.next
reloadStep ==
  /\ reload.pc = "building"
  /\ LET id == reload.next
         found == reload.snap[id]
         reuse == activeUrls[id] # 0
         log == IF reuse THEN urls ELSE getTrackedUrl(urls, activeUrls, id)
         videoUrl == IF reuse THEN activeUrls[id] ELSE Len(log)
         pad == [id |-> id, isEmpty |-> FALSE, videoUrl |-> videoUrl,
                 audioBuffer |-> found.decodable, duration |-> found.duration,
                 startTime |-> found.startTime, endTime |-> found.endTime,
                 volume |-> found.volume, allowOverlap |-> found.allowOverlap]
     IN /\ reuse \/ CanCreate
        /\ urls' = log
        /\ activeUrls' = [activeUrls EXCEPT ![id] = videoUrl]
        /\ reloadAdvance(reload.snap, [reload.out EXCEPT ![id] = pad], id + 1)
  /\ UNCHANGED <<appVars, engineVars, audioVars, editVars, projectVars,
                 confirmVars, db, dbQ, rec, load>>

\* loadData(true) has not reached its finally: the App renders the loading
\* screen in place of the header and the grid
isLoading == load.isInitial /\ load.pc # "idle"

\* the page becomes visible again while a loadData is in progress
visibilityChangeAgain ==
  /\ load.pc # "idle"
  /\ reload.pc = "idle"
  /\ reload' = [NoLoad EXCEPT !.pc = "reading"]
  /\ UNCHANGED <<appVars, engineVars, audioVars, editVars, projectVars,
                 confirmVars, storeVars>>

\* cleanupAllUrls(), setCells([]), loadData(false) while a loadData is in
\* progress
resetAndReloadAgain ==
  /\ urls' = cleanupAllUrls
  /\ activeUrls' = [id \in CellIds |-> 0]
  /\ cells' = <<>>
  /\ reload' = [NoLoad EXCEPT !.pc = "reading"]

\* a project is imported while a reload of the grid is in progress
handleImportAgain(project) ==
  /\ GridShown
  /\ ~isLoading
  /\ load.pc # "idle"
  /\ reload.pc = "idle"
  /\ db' = project
  /\ resetAndReloadAgain
  /\ UNCHANGED <<appVars, engineVars, audioVars, editVars, projectVars,
                 confirmVars, dbQ, rec, load>>

\* the confirmed press of "clear all" while a reload is in progress
handleClearAllAgain ==
  /\ GridShown
  /\ ~isLoading
  /\ load.pc # "idle"
  /\ reload.pc = "idle"
  /\ db' = [id \in CellIds |-> NoRecord]
  /\ resetAndReloadAgain
  /\ UNCHANGED <<appVars, engineVars, audioVars, editVars, projectVars,
                 confirmVars, dbQ, rec, load>>

ReloadNext ==
  \/ loadRead
  \/ loadStep
  \/ visibilityChange
  \/ reloadRead
  \/ reloadStep
  \/ visibilityChangeAgain
  \/ \E project \in [CellIds -> StoredClips \cup {NoRecord}] :
       handleImportAgain(project)
  \/ handleClearAllAgain

\* the App at mount; the page is hidden and shown, projects are imported
\* and the grid is cleared while loads are in progress
ReloadSpec == StoreInit /\ [][ReloadNext]_vars

\* ---------------------------------------------- services/project, db
\* the records saveClip can have written: a blob with or without bytes, an
\* end that getVideoDuration measured or the Infinity a recording without
\* length metadata reports (video.duration || 999 lets it through)
ProjectClips ==
  {[present |-> TRUE, duration |-> d, decodable |-> d > 0, startTime |-> 0,
    endTime |-> e, volume |-> v, allowOverlap |-> o] :
     d \in {0, MediaDur}, e \in {MediaDur, Infinity}, v \in {0, DEFAULT_VOLUME},
     o \in BOOLEAN}

\* x ?? d, and a parameter with default d
Coalesce(x, d) == IF x \in {Undefined, Null} THEN d ELSE x

\* what JSON.parse reads back of a number JSON.stringify wrote
JsonNumber(x) == IF x = Infinity THEN Null ELSE x

\* the entry exportProject pushes for a clip, as the manifest carries it
ClipMetadata(id, clip) ==
  [id |-> id, startTime |-> JsonNumber(clip.startTime),
   endTime |-> JsonNumber(clip.endTime),
   volume |-> JsonNumber(Coalesce(clip.volume, DEFAULT_VOLUME)),
   filename |-> id, allowOverlap |-> clip.allowOverlap]

\* the clips exportProject writes: those with a blob that has bytes
Exported(store) == {id \in CellIds : store[id].present /\ store[id].duration > 0}

RECURSIVE manifestClips(_, _)
manifestClips(store, id) ==
  IF id > MaxCells THEN <<>>
  ELSE (IF id \in Exported(store) THEN <<ClipMetadata(id, store[id])>> ELSE <<>>)
       \o manifestClips(store, id + 1)

\* the archive exportProject generates from the clips of the store
exportFile(store) ==
  [zip |-> TRUE, manifest |-> "json", hasClips |-> TRUE,
   clips |-> manifestClips(store, 1),
   assets |-> [id \in CellIds |->
                 IF id \in Exported(store)
                   THEN [present |-> TRUE, duration |-> store[id].duration,
                         decodable |-> store[id].decodable]
                   ELSE NoAsset]]

\* files that are not projects of this app, and a manifest written by hand
\* that leaves the volume out
OtherFiles ==
  {NoFile,
   [NoFile EXCEPT !.zip = TRUE],
   [NoFile EXCEPT !.zip = TRUE, !.manifest = "garbage"],
   [NoFile EXCEPT !.zip = TRUE, !.manifest = "json"],
   [NoFile EXCEPT !.zip = TRUE, !.manifest = "json", !.hasClips = TRUE,
      !.clips = <<[id |-> 1, startTime |-> 0, endTime |-> MediaDur,
                   volume |-> Undefined, filename |-> 1, allowOverlap |-> TRUE]>>,
      !.assets = [id \in CellIds |->
                    IF id = 1 THEN [present |-> TRUE, duration |-> MediaDur,
                                    decodable |-> TRUE]
                              ELSE NoAsset]]}

\* saveClip(clipData.id, videoBlob, clipData.startTime, ...): the record put
savedRecord(clipData, asset) ==
  [present |-> TRUE, duration |-> asset.duration, decodable |-> asset.decodable,
   startTime |-> clipData.startTime, endTime |-> clipData.endTime,
   volume |-> Coalesce(clipData.volume, DEFAULT_VOLUME),
   allowOverlap |-> clipData.allowOverlap]

\* exportProject: without clips it throws, else the file is downloaded
exportProject ==
  /\ importRun.pc = "idle"
  /\ \E id \in CellIds : db[id].present
  /\ archive' = [made |-> TRUE, file |-> exportFile(db), from |-> db]
  /\ UNCHANGED <<appVars, engineVars, audioVars, editVars, sessionVars, confirmVars, storeVars,
                 importRun>>

\* importProject(file) up to getAllClips: loadAsync, the manifest, JSON.parse
importProject(file) ==
  /\ importRun.pc = "idle"
  /\ importRun' =
       IF ~file.zip \/ file.manifest # "json"
         THEN [NoImport EXCEPT !.file = file, !.outcome = "error", !.before = db]
         ELSE [NoImport EXCEPT !.pc = "clearing", !.file = file, !.before = db,
                               !.todo = {id \in CellIds : db[id].present}]
  /\ UNCHANGED <<appVars, engineVars, audioVars, editVars, sessionVars, confirmVars, storeVars,
                 archive>>

\* the archive made before is picked in the file dialog
importArchive == archive.made /\ importProject(archive.file)

\* for (const clip of currentClips) await deleteClip(clip.id)
importDelete ==
  /\ importRun.pc = "clearing"
  /\ importRun.todo # {}
  /\ LET id == CHOOSE i \in importRun.todo : \A j \in importRun.todo : i <= j
     IN /\ db' = [db EXCEPT ![id] = NoRecord]
        /\ importRun' = [importRun EXCEPT !.todo = @ \ {id}]
  /\ UNCHANGED <<appVars, engineVars, audioVars, editVars, sessionVars, confirmVars, cells,
                 activeUrls, urls, dbQ, rec, load, archive>>

\* the store is empty: for (const clipData of metadata.clips), which throws
\* when the manifest has no list of clips
importCleared ==
  /\ importRun.pc = "clearing"
  /\ importRun.todo = {}
  /\ importRun' = IF importRun.file.hasClips
                    THEN [importRun EXCEPT !.pc = "saving", !.next = 1]
                    ELSE [importRun EXCEPT !.pc = "idle", !.outcome = "error"]
  /\ UNCHANGED <<appVars, engineVars, audioVars, editVars, sessionVars, confirmVars, storeVars,
                 archive>>

\* one round of that loop: the clip is saved when its file is in the
\* archive; past the last clip the name of the project is returned
importSave ==
  /\ importRun.pc = "saving"
  /\ LET clips == importRun.file.clips
         n == importRun.next
     IN IF n > Len(clips)
        THEN /\ importRun' = [importRun EXCEPT !.pc = "idle", !.outcome = "ok"]
             /\ db' = db
        ELSE /\ importRun' = [importRun EXCEPT !.next = n + 1]
             /\ db' = IF importRun.file.assets[clips[n].filename].present
                      THEN [db EXCEPT ![clips[n].id] =
                              savedRecord(clips[n],
                                          importRun.file.assets[clips[n].filename])]
                      ELSE db
  /\ UNCHANGED <<appVars, engineVars, audioVars, editVars, sessionVars, confirmVars, cells,
                 activeUrls, urls, dbQ, rec, load, archive>>

ProjectNext ==
  \/ exportProject
  \/ \E file \in OtherFiles : importProject(file)
  \/ importArchive
  \/ importDelete
  \/ importCleared
  \/ importSave

\* the services at rest over a store that earlier sessions filled
ProjectInit ==
  /\ EngineInit
  /\ cell = EmptyCell
  /\ cells = <<>>
  /\ activeUrls = [id \in CellIds |-> 0]
  /\ urls = <<>>
  /\ db \in [CellIds -> ProjectClips \cup {NoRecord}]
  /\ dbQ = <<>>
  /\ rec = NoCapture
  /\ load = NoLoad
  /\ AudioIdle
  /\ EditIdle
  /\ SessionIdle

ProjectSpec == ProjectInit /\ [][ProjectNext]_vars

\* ------------------------------------------------- App.tsx: clear-all
\* Time goes in seconds. A timeout runs when it is due: no second passes
\* while a due timeout waits.
\* an arming press that leaves the earlier timeout running
disarmedNot(pending, ref) == pending

\* clearTimeout(clearTimerRef.current) of the arming press
disarmed(pending, ref) == pending \ {ref}

\* the first press: setIsConfirmingClear(true), the old timeout cleared, a
\* new one of 3000 ms kept in clearTimerRef
armClearAll ==
  /\ ~isLoading
  /\ ~clearing.isConfirmingClear
  /\ clearing' = [clearing EXCEPT
                    !.isConfirmingClear = TRUE,
                    !.timers = disarmed(clearing.timers, clearing.clearTimerRef)
                                 \cup {CONFIRM_S},
                    !.clearTimerRef = CONFIRM_S,
                    !.sinceArm = 0]
  /\ UNCHANGED <<appVars, engineVars, audioVars, editVars, sessionVars, projectVars,
                 storeVars>>

\* the press while the confirmation is armed: every clip is deleted, the
\* URLs are revoked, the grid is emptied and loadData(false) is awaited
confirmClearAll ==
  /\ ~isLoading
  /\ load.pc = "idle"
  /\ clearing.isConfirmingClear
  /\ ~clearing.inProgress
  /\ db' = [id \in CellIds |-> NoRecord]
  /\ resetAndReload
  /\ clearing' = [clearing EXCEPT !.inProgress = TRUE]
  /\ UNCHANGED <<appVars, engineVars, audioVars, editVars, sessionVars, projectVars,
                 dbQ, rec>>

\* that press when getAllClips rejects: alert("Error al limpiar"), nothing
\* deleted, the confirmation stays as it is
failClearAll ==
  /\ ~isLoading
  /\ clearing.isConfirmingClear
  /\ ~clearing.inProgress
  /\ notice.alerts < MaxFailures
  /\ notice' = [notice EXCEPT !.failed = @ + 1, !.alerts = @ + 1]
  /\ UNCHANGED <<appVars, engineVars, audioVars, sessionVars, projectVars,
                 confirmVars, storeVars>>

\* handleClearAll
handleClearAllPress == armClearAll \/ confirmClearAll \/ failClearAll

\* loadData(false) of the clear has returned: setIsConfirmingClear(false)
clearAllDone ==
  /\ clearing.inProgress
  /\ load.pc = "idle"
  /\ clearing' = [clearing EXCEPT !.isConfirmingClear = FALSE,
                                  !.inProgress = FALSE]
  /\ UNCHANGED <<appVars, engineVars, audioVars, editVars, sessionVars, projectVars,
                 storeVars>>

\* a due timeout runs: setIsConfirmingClear(false)
clearTimerFire ==
  /\ 0 \in clearing.timers
  /\ clearing' = [clearing EXCEPT
                    !.isConfirmingClear = FALSE,
                    !.timers = @ \ {0},
                    !.clearTimerRef = IF @ = 0 THEN -1 ELSE @]
  /\ UNCHANGED <<appVars, engineVars, audioVars, editVars, sessionVars, projectVars,
                 storeVars>>

\* a second passes
tick ==
  /\ 0 \notin clearing.timers
  /\ clearing' = [clearing EXCEPT
                    !.timers = {t - 1 : t \in @},
                    !.clearTimerRef = IF @ > 0 THEN @ - 1 ELSE @,
                    !.sinceArm = IF @ > CONFIRM_S THEN @ ELSE @ + 1]
  /\ \/ clearing.timers # {}
     \/ clearing.sinceArm <= CONFIRM_S
  /\ UNCHANGED <<appVars, engineVars, audioVars, editVars, sessionVars, projectVars,
                 storeVars>>

ClearNext ==
  \/ loadRead
  \/ loadStep
  \/ handleClearAllPress
  \/ clearAllDone
  \/ clearTimerFire
  \/ tick
  \/ \E project \in [CellIds -> StoredClips \cup {NoRecord}] : handleImport(project)

\* the App at mount; clear-all is pressed, seconds pass, projects are
\* imported
ClearSpec == StoreInit /\ [][ClearNext]_vars

\* ------------------------------------------- services/db: partial updates
\* a request of updateClipTrim in the store's queue: the window it carries
TrimOp(op, id, st, et) ==
  UpdateOp(op, id, [NoRecord EXCEPT !.startTime = st, !.endTime = et],
           "trim", 0)

\* clip.startTime = startTime; clip.endTime = endTime
Trimmed(record, window) ==
  [record EXCEPT !.startTime = window.startTime, !.endTime = window.endTime]

\* updateClipVolume(id, volume): initDB, then its db.get is asked
updateClipVolume(id, v) ==
  /\ Len(dbQ) < MaxPending
  /\ dbQ' = Append(dbQ, UpdateOp("get", id, NoRecord, "volume", v))
  /\ UNCHANGED <<offStoreVars, cells, activeUrls, urls, db, rec, load>>

\* updateClipOverlap(id, allowOverlap)
updateClipOverlap(id, b) ==
  /\ Len(dbQ) < MaxPending
  /\ dbQ' = Append(dbQ, UpdateOp("get", id, NoRecord, "allowOverlap", b))
  /\ UNCHANGED <<offStoreVars, cells, activeUrls, urls, db, rec, load>>

\* updateClipTrim(id, startTime, endTime)
updateClipTrim(id, st, et) ==
  /\ st < et
  /\ Len(dbQ) < MaxPending
  /\ dbQ' = Append(dbQ, TrimOp("getTrim", id, st, et))
  /\ UNCHANGED <<offStoreVars, cells, activeUrls, urls, db, rec, load>>

\* deleteClip(id)
deleteClip(id) ==
  /\ Len(dbQ) < MaxPending
  /\ dbQ' = Append(dbQ, StoreOp("delete", id, NoRecord, FALSE))
  /\ UNCHANGED <<offStoreVars, cells, activeUrls, urls, db, rec, load>>

\* db.get of updateClipTrim resolves without a clip and the call ends as
\* updateClipVolume does, without an error
trimGetSilent ==
  /\ dbQ # <<>>
  /\ Head(dbQ).op = "getTrim"
  /\ LET r == Head(dbQ)
     IN /\ dbQ' = IF db[r.id].present
                  THEN Append(Tail(dbQ),
                              UpdateOp("put", r.id, Trimmed(db[r.id], r.record),
                                       "trim", 0))
                  ELSE Tail(dbQ)
        /\ ret' = ret
  /\ UNCHANGED <<appVars, engineVars, editVars, sessionVars, confirmVars,
                 projectVars, audio, cells, activeUrls, urls, db, rec, load>>

\* db.get of updateClipTrim resolves: with a clip it sets the window on the
\* record read and asks for the put; without one it throws
\* "Clip with id ... not found for trim update"
trimGet ==
  /\ dbQ # <<>>
  /\ Head(dbQ).op = "getTrim"
  /\ LET r == Head(dbQ)
     IN /\ dbQ' = IF db[r.id].present
                  THEN Append(Tail(dbQ),
                              UpdateOp("put", r.id, Trimmed(db[r.id], r.record),
                                       "trim", 0))
                  ELSE Tail(dbQ)
        /\ ret' = IF db[r.id].present
                  THEN ret
                  ELSE [NoCall EXCEPT !.fn = "updateClipTrim", !.raised = TRUE,
                                      !.value = r.id]
  /\ UNCHANGED <<appVars, engineVars, editVars, sessionVars, confirmVars,
                 projectVars, audio, cells, activeUrls, urls, db, rec, load>>

ServiceNext ==
  \/ \E id \in CellIds, v \in EditVolumes : updateClipVolume(id, v)
  \/ \E id \in CellIds, b \in BOOLEAN : updateClipOverlap(id, b)
  \/ \E id \in CellIds, st \in StartTimes, et \in TrimEnds :
       updateClipTrim(id, st, et)
  \/ \E id \in CellIds : deleteClip(id)
  \/ updateGet
  \/ trimGet
  \/ dbApply

\* the db service on its own, over every store of the model: no App is
\* mounted, the calls come in any order
ServiceInit ==
  /\ EngineInit
  /\ cell = EmptyCell
  /\ cells = <<>>
  /\ activeUrls = [id \in CellIds |-> 0]
  /\ urls = <<>>
  /\ db \in [CellIds -> StoredClips \cup {NoRecord}]
  /\ dbQ = <<>>
  /\ rec = NoCapture
  /\ load = NoLoad
  /\ AudioIdle
  /\ EditIdle
  /\ SessionIdle

ServiceSpec == ServiceInit /\ [][ServiceNext]_vars

\* ------------------------------------------------- reading a step's kind
\* handler k ran from the overlap policy to its await of play() in this
\* step: in the pointer-down itself, or as the continuation of ctx.resume()
Fresh(k) ==
  /\ nextTrig = k /\ nextTrig' = k + 1
  /\ ctx = "running"
Resumed(k) ==
  /\ ctx = "running"
  /\ resumeQ # <<>> /\ Head(resumeQ) = k /\ resumeQ' = Tail(resumeQ)
AudioStep(k) == Fresh(k) \/ Resumed(k)

\* the cell handler k works with: the props of the render of its pointer-down
Captured(k) == IF handlers[k].pc = "resume" THEN handlers[k].cell ELSE cell
CapturedInst(k) == IF handlers[k].pc = "resume" THEN handlers[k].inst ELSE epoch

\* ------------------------------------------------------------------ C1
\* C1: monophonic exclusivity.  A trigger on a cell whose allowOverlap is
\* false leaves at most one node of its component sounding, whatever was
\* sounding before it (nodes started while overlap was allowed included);
\* while the grid has not been torn down these are all the nodes of the
\* cell; and until the next trigger no step adds a sounding node.
MonoExclusive ==
  [][ /\ \A k \in TrigIds :
           (AudioStep(k) /\ ~Captured(k).allowOverlap)
              => /\ Cardinality({s \in Sounding' : src'[s].inst = CapturedInst(k)}) <= 1
                 /\ (epoch = 0 /\ mounted) => Cardinality(Sounding') <= 1
      /\ (\A k \in TrigIds : ~AudioStep(k)) => Sounding' \subseteq Sounding ]_vars

\* a monophonic trigger has cut off an earlier node and started its own
MonoWitness ==
  /\ epoch = 0 /\ mounted /\ ~cell.allowOverlap
  /\ Cardinality(Sounding) = 1
  /\ \E s \in TrigIds : src[s].status = "finished" /\ s \notin activeSources

\* ------------------------------------------------------------------ C3
\* C3: polyphonic layering.  A trigger on a cell whose allowOverlap is true
\* and which has a decoded buffer adds its node to the sounding nodes and to
\* the active set and stops or de-registers none of the earlier ones.
PolyLayering ==
  [][ \A k \in TrigIds :
        (AudioStep(k) /\ Captured(k).allowOverlap /\ Captured(k).hasBuffer)
           => /\ Sounding' = Sounding \cup {k}
              /\ activeSources' = activeSources \cup {k}
              /\ k \notin Sounding ]_vars

\* two triggers in a row are both sounding and both registered
PolyWitness ==
  /\ cell.allowOverlap /\ cell.hasBuffer
  /\ Cardinality(Sounding) = MaxTriggers
  /\ Sounding \subseteq activeSources

\* ------------------------------------------------------------------ C7
\* the conditions under which the spec makes a pointer-down a no-op
GuardFails(e) ==
  \/ cell.isEmpty
  \/ isDeleteMode
  \/ showRecorder
  \/ e.target = "control"
  \/ (e.pointerType = "mouse" /\ e.button # 0)

\* C7: trigger guards.  When the cell is empty, the grid is in edit/delete
\* mode or suspended, the target is a control, or the pointer is a mouse
\* with a non-primary button, no pointer-down step changes anything: no node
\* created or stopped, video, playing flag and timers as before, no
\* ctx.resume().
GuardsNoOp ==
  \A e \in Events : GuardFails(e) => ~ENABLED (PointerDown(e) /\ vars' # vars)

\* the grid is suspended while the cell is occupied, playing and sounding:
\* a pointer-down here meets only the suspension guard
GuardsWitness ==
  /\ mounted /\ showRecorder /\ ~cell.isEmpty /\ ~isDeleteMode
  /\ isPlaying /\ Sounding # {}
  /\ nextTrig <= MaxTriggers

\* ------------------------------------------------------------------ C2
\* the auto-stop timer t fires in this step
Fires(t) ==
  /\ t \in timers /\ t \notin timers'
  /\ handlers' = handlers /\ mounted' = mounted

\* C2: timer cancellation.  Once the cell has been re-triggered, the timer
\* of the earlier trigger neither clears the playing flag nor pauses the
\* video, whether the re-trigger's play() is still pending, has resolved or
\* was rejected.
StaleTimerHarmless ==
  [][ \A t \in timers :
        (Fires(t) /\ Alive(t.inst) /\ nextTrig > t.id + 1)
           => (isPlaying' = isPlaying /\ video'.paused = video.paused) ]_vars

\* ------------------------------------------------------------------ C4
InFlight == {k \in TrigIds : handlers[k].pc # "none"}

\* C4: rest position.  Whenever the video has been played and its playback
\* has ended or been stopped (the element is paused or the playing flag is
\* down) and no trigger is in flight, the element is paused at the cell's
\* current startTime.
RestPosition ==
  (video.present /\ video.played /\ InFlight = {}
     /\ (video.paused \/ ~isPlaying))
    => (video.paused /\ video.pos = cell.startTime)

\* ------------------------------------------------------------------ C5
\* C5: mute consistency.  The video element of an occupied cell is muted
\* exactly when the cell has a decoded audio buffer.
MuteConsistency ==
  (mounted /\ ~cell.isEmpty /\ video.present)
    => (video.muted <=> cell.hasBuffer)

\* ------------------------------------------------------------------ C6
\* C6: import reset.  Once the import has completed (the slot's component
\* is mounted again), nothing that was triggered on the earlier component
\* is still sounding or still has its auto-stop timer pending.
ImportTerminatesAll ==
  (mounted /\ epoch > 0)
    => /\ \A s \in Sounding : src[s].inst = epoch
       /\ \A t \in timers : t.inst = epoch

\* ------------------------------------------------------------------ C8
\* C8: teardown cancellation.  No node of a torn-down component is sounding
\* and no auto-stop timer of it is pending (so none is started, left
\* sounding, or fires after the teardown).
TeardownCancels ==
  /\ \A s \in Sounding : Alive(src[s].inst)
  /\ \A t \in timers : Alive(t.inst)

\* ------------------------------------------------------------------ C9
\* clamp(volume, 0, 1) as a native volume, in tenths
ClampNative(volume) == Min(10, Max(0, 10 * volume))

\* C9: fallback audio path.  A trigger on a cell without decoded buffer
\* creates no node and, where it reaches the video element, leaves it
\* unmuted with native volume clamp(volume, 0, 1) when play() is called.
FallbackPath ==
  [][ \A k \in TrigIds :
        (AudioStep(k) /\ ~Captured(k).hasBuffer)
           => /\ src'[k].status = "none"
              /\ VideoRef(CapturedInst(k))
                   => (~video'.muted /\ video'.volume = ClampNative(Captured(k).volume)) ]_vars

\* ----------------------------------------------------------------- C10
\* C10: unclamped gain.  The gain of a node a trigger starts is the cell's
\* volume as stored (volume 12: gain 12, that is 120 tenths).
GainIsVolume ==
  [][ \A k \in TrigIds :
        (AudioStep(k) /\ Captured(k).hasBuffer)
           => src'[k].gain = 10 * Captured(k).volume ]_vars

\* ----------------------------------------------------------------- C12
\* C12: stop-before-start ordering.  In the one step in which a trigger on
\* a cell with allowOverlap false runs its audio side, every node that was
\* registered for the component before it is stopped and de-registered, and
\* the node the trigger starts is sounding and registered after it: the new
\* node is started after the stops, and no state lies between them.
StopBeforeStart ==
  [][ \A k \in TrigIds :
        (AudioStep(k) /\ ~Captured(k).allowOverlap)
           => /\ \A s \in InstSources(CapturedInst(k)) :
                    src'[s].status # "playing" /\ s \notin activeSources'
              /\ Captured(k).hasBuffer
                   => (src'[k].status = "playing" /\ k \in activeSources') ]_vars

\* the second trigger's node sounds and is registered, the first one's was
\* stopped and de-registered, with its onended still to come
StopBeforeStartWitness ==
  /\ ~cell.allowOverlap /\ cell.hasBuffer
  /\ \E k \in TrigIds : \E s \in 1..(k - 1) :
       /\ src[k].status = "playing" /\ k \in activeSources
       /\ src[s].status = "finished" /\ s \notin activeSources
       /\ src[s].inst = src[k].inst

\* ----------------------------------------------------------------- C13
\* C13: suspend returns the cell to Idle.  When the recorder opens while
\* the cell's playing flag is up, after that step the video is paused at
\* the cell's startTime, the flag is down and no auto-stop timer of the
\* component is pending.
SuspendToIdle ==
  [][ (~showRecorder /\ showRecorder' /\ mounted /\ isPlaying)
        => /\ ~isPlaying'
           /\ video'.present => (video'.paused /\ video'.pos = cell.startTime)
           /\ \A t \in timers' : ~Alive(t.inst) ]_vars

\* ----------------------------------------------------------------- C14
\* C14: natural end returns the cell to Idle.  When the "ended" event of a
\* video that played to the end of its media is dispatched while the
\* playing flag is up, after that step the flag is down, the video is at
\* the cell's startTime and no auto-stop timer of the component is pending.
NaturalEndToIdle ==
  [][ (/\ video.present /\ video.ended /\ video.paused /\ video.pos = MediaDur
       /\ video'.present /\ ~video'.ended
       /\ mounted /\ isPlaying)
        => /\ ~isPlaying'
           /\ video'.pos = cell.startTime
           /\ \A t \in timers' : ~Alive(t.inst) ]_vars

\* ----------------------------------------------------------------- C16
\* C16: active-set accuracy.  The active set holds only nodes that were
\* started and whose end has not been delivered yet (a node that played out
\* or was stopped at teardown stays until its onended runs), and every
\* sounding node is in it.
ActiveSetAccurate ==
  /\ \A s \in activeSources : src[s].status \in {"playing", "finished"}
  /\ Sounding \subseteq activeSources

\* one node has ended and was removed by its onended while a later one is
\* sounding and registered
ActiveSetWitness ==
  \E s \in TrigIds, k \in TrigIds :
    /\ src[s].status = "done" /\ s \notin activeSources
    /\ src[k].status = "playing" /\ k \in activeSources

\* ----------------------------------------------------------------- C19
\* C19: audio-resume failure aborts silently.  When ctx.resume() fails
\* while triggers are awaiting it, that step creates and stops no node,
\* leaves the video, the playing flag and the timers as they were, and no
\* error leaves the trigger handler.
ResumeFailureSilent ==
  [][ (ctx = "resuming" /\ ctx' = "suspended" /\ resumeQ # <<>>)
        => /\ src' = src /\ activeSources' = activeSources
           /\ video' = video /\ isPlaying' = isPlaying
           /\ timers' = timers /\ playTimerRef' = playTimerRef
           /\ uncaught' = uncaught ]_vars

\* ----------------------------------------------------------------- C20
\* trigger k reached the video element and its play() was rejected
Refused(k) ==
  /\ AudioStep(k)
  /\ VideoRef(CapturedInst(k))
  /\ handlers'[k].pc = "none"

\* C20: playback-start failure is absorbed.  When the play() of a trigger
\* is rejected, no error leaves the handler, the trigger neither raises the
\* playing flag nor schedules a timer or a later continuation, the node it
\* started is sounding, and the cell the App holds is unchanged.
PlayFailureAbsorbed ==
  [][ \A k \in TrigIds :
        Refused(k)
          => /\ uncaught' = uncaught
             /\ isPlaying' = isPlaying
             /\ timers' = timers /\ playTimerRef' = playTimerRef
             /\ \A n \in 1..Len(playQ') : playQ'[n] # k
             /\ Captured(k).hasBuffer => src'[k].status = "playing"
             /\ cell' = cell ]_vars

\* a first trigger whose play() was refused: its node sounds over a video
\* that never played, with the flag down and no timer
PlayFailureWitness ==
  /\ epoch = 0 /\ mounted /\ commits = 0 /\ ~uncaught
  /\ video.present /\ ~video.played
  /\ Sounding # {} /\ InFlight = {}
  /\ ~isPlaying /\ timers = {}

\* ----------------------------------------------------------------- C15
\* C15: always back to Idle.  While the playing flag is up an auto-stop
\* timer of the mounted component is pending, and, timers firing and
\* settled promises being continued, every state with the flag up is
\* followed by a state with the flag down and the video paused.
AlwaysBackToIdle ==
  /\ [](isPlaying => \E t \in timers : Alive(t.inst))
  /\ isPlaying ~> (~isPlaying /\ video.paused)

\* a trigger raised the flag and its timer has brought the cell back to rest
BackToIdleWitness ==
  /\ mounted
  /\ video.present /\ video.played /\ video.paused
  /\ video.pos = cell.startTime
  /\ ~isPlaying /\ timers = {} /\ InFlight = {}
  /\ playTimerRef[epoch] # 0


\* ----------------------------------------------------------------- C11
\* the cell is empty with default fields and no media URL is bound to it
AlreadyEmpty(id) ==
  /\ Len(cells) = MaxCells
  /\ cells[id] = EmptyPad(id)
  /\ activeUrls[id] = 0

\* this step is a call of handleDelete(id): it issues deleteClip(id)
DeleteCalled(id) ==
  /\ Len(dbQ') > Len(dbQ)
  /\ dbQ'[Len(dbQ) + 1] = StoreOp("delete", id, NoRecord, FALSE)

Revokes(u) == {i \in DOMAIN urls : urls[i].ev = "revoke" /\ urls[i].url = u}

Live(u) == u \in Created /\ Revokes(u) = {}

\* the URLs made to be a cell's videoUrl (getTrackedUrl)
CellUrls == {u \in Created : urls[u].kind = "cell"}

\* no URL is revoked twice
RevokedOnce == \A u \in Created : Cardinality(Revokes(u)) <= 1

\* at most one unrevoked URL per cell id
OnePerId ==
  \A id \in CellIds : Cardinality({u \in CellUrls : urls[u].id = id /\ Live(u)}) <= 1

\* an unrevoked URL is the one tracked for its cell, so that the delete,
\* the replacement or the cleanup to come revokes it
NoneLeft == \A u \in CellUrls : Live(u) => activeUrls[urls[u].id] = u

\* a URL that replaces another is created before the old one is revoked
ReplaceThenRevokeOld ==
  \A u \in CellUrls :
    urls[u].existing # 0 => \A i \in Revokes(urls[u].existing) : i > u

\* C17: every object URL bound to a cell's media is revoked exactly once
\* (never twice, and while unrevoked it is the one tracked for its cell, so
\* that its release is still to come), at most one is tracked per cell id,
\* and a replacement creates the new URL before it revokes the old one.
UrlRelease == RevokedOnce /\ OnePerId /\ NoneLeft /\ ReplaceThenRevokeOld


\* ----------------------------------------------------------------- C18
\* the trigger window w lies inside a media of the given length
WindowIn(w, duration) ==
  /\ 0 <= w.startTime
  /\ w.startTime < w.endTime
  /\ w.endTime <= duration

\* C18: every occupied cell of the grid and every record of the store has
\* 0 <= startTime < endTime <= the length of its media.
TrimWindow ==
  /\ \A i \in DOMAIN cells : ~cells[i].isEmpty => WindowIn(cells[i], cells[i].duration)
  /\ \A id \in CellIds : db[id].present => WindowIn(db[id], db[id].duration)


\* ----------------------------------------------------------------- C29
\* handler k starts something in this step: a node, or a play() that the
\* element accepts
TakesEffect(k) ==
  /\ AudioStep(k)
  /\ \/ src'[k].status = "playing"
     \/ handlers'[k].pc = "play"

\* C29: no trigger takes effect under changed guards.  No handler starts a
\* node or a playback for the cell while the grid is suspended or the cell
\* is empty, a handler that passed the guards before its await of
\* ctx.resume() included.
NoEffectUnderChangedGuards ==
  [][ \A k \in TrigIds : TakesEffect(k) => (~showRecorder /\ ~cell.isEmpty) ]_vars

\* ----------------------------------------------------------------- C30
\* the pending auto-stop timers of the component instance i
TimersOf(i) == {t \in timers : t.inst = i}

\* at most one auto-stop timer of an instance is pending, and it is the one
\* its playTimerRef holds
OneTimerPerInstance ==
  \A i \in Insts :
    /\ Cardinality(TimersOf(i)) <= 1
    /\ \A t \in TimersOf(i) : playTimerRef[i] = t.id

\* C30: single video flight.  At most one auto-stop timer is pending for
\* the cell, and it is the timer whose handle is stored for the cell (a
\* stored handle is that of the pending timer or of none that is pending).
SingleVideoFlight ==
  /\ Cardinality(timers) <= 1
  /\ \A t \in timers : playTimerRef[t.inst] = t.id


OverThreshold(rawData) ==
  {i \in 0..(Len(rawData) - 1) : Abs(rawData[i + 1]) > threshold}

\* the least element of a non-empty set of naturals
Least(S) == CHOOSE i \in S : \A j \in S : i <= j

\* C26: onset detection value.  For a decodable clip findBeatOnset returns
\* max(0, t - backoff) with t = index / sampleRate of the first sample of
\* channel 0 strictly over the threshold (in ms * sampleRate: 1000 * index
\* and 30 * sampleRate), never negative and never later than t, and 0 when
\* no sample is over the threshold.
OnsetValue ==
  (ret.fn = "findBeatOnset" /\ ~decodeRaises(ret.blob))
    => /\ ~ret.raised
       /\ IF OverThreshold(ret.blob.rawData) = {}
          THEN ret.value = 0
          ELSE LET t == 1000 * Least(OverThreshold(ret.blob.rawData))
                   back == BACKOFF_MS * ret.blob.sampleRate
               IN /\ ret.value = (IF t - back > 0 THEN t - back ELSE 0)
                  /\ ret.value >= 0
                  /\ ret.value <= t

\* an onset after the backoff, found behind a sample that is only at the
\* threshold
OnsetWitness ==
  /\ ret.fn = "findBeatOnset"
  /\ ~decodeRaises(ret.blob)
  /\ ret.value > 0
  /\ Len(ret.blob.rawData) = MaxSamples
  /\ Abs(ret.blob.rawData[1]) = threshold

\* ----------------------------------------------------------------- C27
\* C27: onset detection never raises.  decodeAudio raises exactly when the
\* blob is empty or the codec rejects it, and findBeatOnset turns each such
\* failure into the result 0.
OnsetNeverRaises ==
  /\ ret.fn = "decodeAudio" => (ret.raised <=> (ret.blob.size = 0 \/ ~ret.blob.valid))
  /\ ret.fn = "findBeatOnset" => ~ret.raised
  /\ (ret.fn = "findBeatOnset" /\ (ret.blob.size = 0 \/ ~ret.blob.valid))
       => ret.value = 0

\* findBeatOnset was called on a blob the codec rejects
OnsetNeverRaisesWitness ==
  /\ ret.fn = "findBeatOnset"
  /\ ret.blob.size > 0
  /\ ~ret.blob.valid
  /\ ret.value = 0
  /\ ~ret.raised


\* ----------------------------------------------------------------- C21
\* this step is the setCells(loadedCells) of a loadData that found clips
CompletesLoad == load.pc = "building" /\ load'.pc = "idle"

\* C21: decode failure is non-fatal.  A commit whose decodeAudio fails
\* still makes the cell occupied, with a null buffer, leaves the other
\* cells alone and still issues the save of the clip; a load shows every
\* stored clip as an occupied cell, with a null buffer where the decode
\* failed, and every other id as an empty cell; neither is cut short.
DecodeFailureNonFatal ==
  [][ /\ (rec.pc = "decode" /\ rec' # rec /\ ~rec.decodable)
           => /\ rec'.pc = "save"
              /\ Len(dbQ') = Len(dbQ) + 1
              /\ dbQ'[Len(dbQ')].op = "put"
              /\ dbQ'[Len(dbQ')].id = rec.id
              /\ dbQ'[Len(dbQ')].record.present
              /\ \A i \in DOMAIN cells :
                   IF i = rec.id
                   THEN ~cells'[i].isEmpty /\ ~cells'[i].audioBuffer
                   ELSE cells'[i] = cells[i]
      /\ (load.pc = "building" /\ load' # load)
           => \/ load'.pc = "building" /\ load'.next > load.next
              \/ load'.pc = "idle"
      /\ CompletesLoad
           => /\ Len(cells') = MaxCells
              /\ \A id \in CellIds :
                   IF load.snap[id].present
                   THEN /\ ~cells'[id].isEmpty
                        /\ cells'[id].audioBuffer = load.snap[id].decodable
                        /\ cells'[id].startTime = load.snap[id].startTime
                        /\ cells'[id].endTime = load.snap[id].endTime
                   ELSE cells'[id] = EmptyPad(id) ]_vars

\* a load in progress has pushed a cell whose decode failed and goes on
\* with the next stored clip
DecodeFailureWitness ==
  /\ load.pc = "building"
  /\ \E id \in CellIds :
       /\ id < load.next
       /\ load.snap[id].present /\ ~load.snap[id].decodable
       /\ ~load.out[id].isEmpty /\ ~load.out[id].audioBuffer

\* ----------------------------------------------------------------- C28
\* the grid holds one cell per slot, ids ascending from 1
FullGrid ==
  /\ Len(cells) = MaxCells
  /\ \A i \in DOMAIN cells : cells[i].id = i

\* C28: fixed grid.  Once the initial load has filled the grid, the grid
\* holds one cell per slot, ids 1.. in ascending order, in every later
\* state, clear-all, project import and a failed reload included.
FixedGrid == [][FullGrid => FullGrid']_vars

\* C22: Persistence errors surface. Whenever a store request of set-volume,
\* set-overlap or delete-clip fails, the step that delivers the failure shows
\* the user a message (an alert) and leaves no rejection unhandled, and every
\* persisted record is as it was.
RequestFails == notice'.failed > notice.failed

PersistenceErrorsSurface ==
  [][ RequestFails => /\ notice'.alerts > notice.alerts
                      /\ notice'.unhandled = notice.unhandled
                      /\ db' = db ]_vars

\* C23: Partial updates. A set-volume or set-overlap step changes only that
\* field of that cell in memory and leaves the store as it is (the write is
\* still to come); when the write of an update completes, the persisted
\* records differ from those before it in that field of that cell only.
UpdateAsked ==
  /\ Len(dbQ') > Len(dbQ)
  /\ IsUpdateOp(dbQ'[Len(dbQ')])

InMemoryPartial ==
  LET r == dbQ'[Len(dbQ')]
  IN /\ cells' = [cells EXCEPT ![r.id] = Edited(cells[r.id], r.field, r.value)]
     /\ db' = db

UpdateWritten ==
  /\ dbQ # <<>>
  /\ IsUpdateOp(Head(dbQ))
  /\ Head(dbQ).op = "put"
  /\ dbQ' = Tail(dbQ)
  /\ notice' = notice

PersistedPartial ==
  LET r == Head(dbQ)
  IN /\ db' = [db EXCEPT ![r.id] = Edited(db[r.id], r.field, r.value)]
     /\ cells' = cells

PartialUpdates ==
  [][ /\ UpdateAsked => InMemoryPartial
      /\ UpdateWritten => PersistedPartial ]_vars

\* C24: Trim commit is a partial update. From the trimmer's save to the
\* request of the write, no step of the commit changes the cell's object
\* URL, its decoded buffer, its volume or its allowOverlap, creates or
\* revokes an object URL, or calls decodeAudio.
TrimCommitStep ==
  /\ rec.pc \in {"trim", "trimDecode"}
  /\ rec'.pc \in {"trimDecode", "save"}

TrimCommitIsPartial ==
  [][ TrimCommitStep =>
        /\ cells'[rec.id].videoUrl = cells[rec.id].videoUrl
        /\ cells'[rec.id].audioBuffer = cells[rec.id].audioBuffer
        /\ cells'[rec.id].volume = cells[rec.id].volume
        /\ cells'[rec.id].allowOverlap = cells[rec.id].allowOverlap
        /\ urls' = urls
        /\ ret' = ret ]_vars

\* every request asked of the store has completed, none has failed, and the
\* grid is shown
EditsSettled ==
  /\ dbQ = <<>>
  /\ notice.failed = 0
  /\ GridShown
  /\ load.pc = "idle"

\* C31: No lost update between partial edits. Once the set-volume and
\* set-overlap requests of a cell have all completed, the persisted record of
\* every occupied cell holds the volume and the allowOverlap of the
\* in-memory cell.
NoLostUpdate ==
  EditsSettled =>
    \A id \in CellIds :
      (~cells[id].isEmpty /\ db[id].present) =>
        /\ db[id].volume = cells[id].volume
        /\ db[id].allowOverlap = cells[id].allowOverlap

\* C32: Edits do not resurrect media. Once every request has completed, the
\* store has no record for a cell that the grid shows empty: an update begun
\* before the delete and finished after it has not put the record back.
NoResurrection ==
  EditsSettled => \A id \in CellIds : cells[id].isEmpty => ~db[id].present

\* C34: No dangling URL in the grid. In every state the videoUrl of every
\* occupied in-memory cell is an object URL that was created and has not
\* been revoked.
NoDanglingUrl ==
  \A i \in DOMAIN cells : ~cells[i].isEmpty => Live(cells[i].videoUrl)

\* every loadData that was started has completed
LoadsDone == load.pc = "idle" /\ reload.pc = "idle" /\ dbQ = <<>>

\* the in-memory cell is what the store holds for its id
Reflects(pad, record) ==
  /\ pad.isEmpty = ~record.present
  /\ record.present =>
       /\ pad.startTime = record.startTime
       /\ pad.endTime = record.endTime
       /\ pad.volume = record.volume
       /\ pad.allowOverlap = record.allowOverlap

\* C33: Reload convergence. Once all the loads that ran beside each other
\* have completed, the grid is complete and every cell reflects the store:
\* occupied iff the store has a record of its id, with that record's trim
\* window, volume and allowOverlap.
ReloadConvergence ==
  LoadsDone =>
    /\ Len(cells) = MaxCells
    /\ \A id \in CellIds : Reflects(cells[id], db[id])

\* this step is handleDelete on the slot of the mounted component
PadDeleted ==
  /\ OverlayShown
  /\ cell' = EmptyCell
  /\ mounted'
  /\ epoch' = epoch

\* C35: Delete stops playback. Right after delete-clip on a cell no node of
\* the deleted media is sounding or registered as active, no auto-stop timer
\* of the cell is pending, and the playing flag is cleared.
DeleteStopsPlayback ==
  [][ PadDeleted => /\ Sounding' = {}
                    /\ activeSources' = {}
                    /\ timers' = {}
                    /\ ~isPlaying' ]_vars

\* C36: Failed import leaves the store unchanged. Whenever importProject has
\* ended with an error, the store holds exactly the records it held when
\* importProject was called.
FailedImportKeepsStore ==
  importRun.outcome = "error" => db = importRun.before

\* the store a round trip of the store "from" has to give
RoundTripOf(from) ==
  [id \in CellIds |-> IF id \in Exported(from) THEN from[id] ELSE NoRecord]

\* C37: Export/import round trip. When the import of the archive that
\* exportProject made has ended well, the store holds exactly the exported
\* clips with the startTime, endTime, volume, allowOverlap and media they
\* had at the export, and nothing else.
RoundTrip ==
  (importRun.outcome = "ok" /\ archive.made /\ importRun.file = archive.file)
    => db = RoundTripOf(archive.from)

\* this step is a press of clear-all that deletes the clips
ClearStarts == ~clearing.inProgress /\ clearing'.inProgress

\* this step is a press of clear-all that arms the confirmation
ArmingPress ==
  /\ clearing'.sinceArm = 0
  /\ clearing'.clearTimerRef = CONFIRM_S
  /\ CONFIRM_S \in clearing'.timers

\* the confirmation, while set, has its timeout due 3 seconds after the
\* most recent arming press
ArmedWithinWindow ==
  clearing.isConfirmingClear =>
    /\ clearing.sinceArm <= CONFIRM_S
    /\ (CONFIRM_S - clearing.sinceArm) \in clearing.timers

\* C38: Clear-all needs confirmation. A press deletes clips only when the
\* confirmation flag is set, which is at most 3 seconds after an arming
\* press; the flag is set only by an arming press and is cleared only by
\* the timeout 3 seconds after the most recent arming press or by a
\* completed clear.
ClearNeedsConfirmation ==
  /\ []ArmedWithinWindow
  /\ [][ /\ ClearStarts => /\ clearing.isConfirmingClear
                           /\ clearing.sinceArm <= CONFIRM_S
         /\ (\E id \in CellIds : db[id].present /\ ~db'[id].present)
              => (ClearStarts \/ load'.pc = "reading")
         /\ (~clearing.isConfirmingClear /\ clearing'.isConfirmingClear)
              => ArmingPress
         /\ (clearing.isConfirmingClear /\ ~clearing'.isConfirmingClear)
              => \/ clearing.sinceArm = CONFIRM_S
                 \/ (clearing.inProgress /\ ~clearing'.inProgress) ]_vars

\* the second press came within the window and deleted loaded clips: the
\* clear is running, their URLs were revoked, the store is empty
ClearConfirmedWitness ==
  /\ clearing.inProgress
  /\ clearing.sinceArm \in 1..CONFIRM_S
  /\ \E i \in DOMAIN urls : urls[i].ev = "revoke"
  /\ \A id \in CellIds : ~db[id].present

\* the oldest request of the store is answered in this step, and it is the
\* db.get of a partial update for an id without a record
MissingGet ==
  /\ dbQ # <<>>
  /\ Head(dbQ).op \in {"get", "getTrim"}
  /\ ~db[Head(dbQ).id].present
  /\ Len(dbQ') <= Len(dbQ)
  /\ dbQ' # dbQ

\* C39: Partial updates of a missing record. updateClipVolume and
\* updateClipOverlap for an id without a stored record leave the store as
\* it is and ask for no put; updateClipTrim for such an id throws and also
\* leaves the store as it is and asks for no put.
MissingRecordUpdate ==
  [][ MissingGet =>
        /\ db' = db
        /\ dbQ' = Tail(dbQ)
        /\ (Head(dbQ).op = "getTrim"
              => ret' = [NoCall EXCEPT !.fn = "updateClipTrim",
                                       !.raised = TRUE,
                                       !.value = Head(dbQ).id]) ]_vars

\* updateClipTrim has thrown for an id whose record a deleteClip removed
\* before its db.get, and nothing is left to do in the store
MissingTrimWitness ==
  /\ ret.fn = "updateClipTrim"
  /\ ret.raised
  /\ ~db[ret.value].present
  /\ \E id \in CellIds : db[id].present
  /\ dbQ = <<>>

====
